---- MODULE Spec2Model ----
(***************************************************************************)
(* Client-side recommendation state machine of the CES Eats front end      *)
(* (src/app/page.tsx, component Home, latest variant at lines 587-1714,    *)
(* and the fetch wrappers of src/lib/api.ts).                              *)
(*                                                                         *)
(* Every React state of Home that the state machine owns is a variable.    *)
(* One action is one event-loop task: an event handler or the resumption   *)
(* of an async function after an await, together with the effects that     *)
(* React runs for the state it changed (the radius effect and the          *)
(* fetch-on-parameter-change effect).                                      *)
(*                                                                         *)
(* Representation                                                          *)
(*   - null / undefined are sentinels of the same TLA+ kind as the value:  *)
(*     NoStore, NoLocation, NoError, NoType (falsy type), NoCount.         *)
(*   - coordinates are whole metres north / east of the fixed location;    *)
(*     radiusKm is kept in units of 1/3 m (RadiusPerKm units per km), in   *)
(*     which timeOption / 60 * 5 km is the integer 250 * timeOption.       *)
(*   - every setLocation call stores a new object, which React (comparing  *)
(*     with Object.is) takes as a change even when the coordinates are     *)
(*     the same: each such call re-runs the effects that depend on it.     *)
(***************************************************************************)
EXTENDS Integers, Sequences, FiniteSets, TLC

VARIABLES
    timeOption,          \* page.tsx:663
    type,                \* page.tsx:664
    location,            \* page.tsx:665
    stores,              \* page.tsx:666
    loading,             \* page.tsx:667
    error,               \* page.tsx:668
    selectedStore,       \* page.tsx:669
    radiusKm,            \* page.tsx:682
    displayedCount,      \* page.tsx:686
    geo,                 \* geolocation: "pending" | "watching" | "off" (watchIdRef, page.tsx:698)
    inflight,            \* ids of getRecommendations calls awaiting their response
    pendingViews,        \* select handlers suspended at await incrementPlaceView
    timers,              \* pending 800 ms setTimeout callbacks of handleMarkerClick
    nRequests,           \* history: number of recommendation requests issued
    lastRequest,         \* history: body of the latest request issued
    lastDone,            \* history: the latest fetch completion
    nSelects,            \* history: number of select calls made
    op,                  \* history: the select call being followed, if undisturbed
    lastView,            \* history: the latest select call to resume, and what incrementPlaceView returned to it
    \* TrendingPlaces (src/components/TrendingPlaces.tsx), which is given stores as a prop
    mounted,             \* "none" (not rendered) | "new" (rendered, effects not yet run) | "live" | "gone"
    now,                 \* Date.now(), in minutes
    previousViewCounts,  \* TrendingPlaces.tsx:19, a function from venue ids to counts
    savedViewCounts,     \* localStorage item placeViewCounts
    savedTimestamp,      \* localStorage item placeViewCountsTimestamp
    storageMode,         \* whether localStorage.getItem / setItem throw
    rotateAt,            \* when the 10 minute interval of TrendingPlaces.tsx:155 is next due
    currentIndex,        \* TrendingPlaces.tsx:21
    isSliding,           \* TrendingPlaces.tsx:22
    slideOn,             \* the 3 s interval of TrendingPlaces.tsx:173 exists
    slideTimeouts,       \* pending setTimeout callbacks of an auto-advance tick
    lastRotate,          \* history: when the rotation last ran, or else when the effects first ran
    seededFrom,          \* history: the list the baseline was last seeded from, if it was not loaded
    did,                 \* history: what the snapshot code did in the latest step
    escaped,             \* history: an exception left a callback of TrendingPlaces uncaught
    lateUpdate,          \* history: a timer set a state of TrendingPlaces after its effect was cleaned up
    \* The distance slider of the map (src/components/GoogleMap.tsx) and the RAG panel of Home
    sliderValue,         \* GoogleMap.tsx:1220, in metres
    sliderInput,         \* history: the position the user last moved the slider to
    ragStores,           \* page.tsx:691
    ragLoading,          \* page.tsx:692
    lastSelect           \* history: the id of the venue the latest select call was made for, "" for null

homeVars == <<timeOption, type, location, loading, error, selectedStore,
              radiusKm, displayedCount, geo, inflight,
              pendingViews, timers, nRequests, lastRequest, lastDone, nSelects,
              op, lastView>>

trendVars == <<mounted, now, previousViewCounts, savedViewCounts, savedTimestamp,
               storageMode, rotateAt, currentIndex, isSliding, slideOn,
               slideTimeouts, lastRotate, seededFrom, did, escaped, lateUpdate>>

panelVars == <<sliderValue, sliderInput, ragStores, ragLoading, lastSelect>>

vars == <<homeVars, stores, trendVars, panelVars>>

-----------------------------------------------------------------------------
(* Bounds of the model *)

MaxFetches == 2
MaxSelects == 1
NumFillers == 8
MaxListLen == 3

-----------------------------------------------------------------------------
(* Program constants *)

PageSize == 10
InitialTimeOption == 24
RadiusPerKm == 3000
MinRadius == 300
MaxRadius == 6000
InitialRadius == 4500

NoType == ""
NoCount == -1
NoError == "<null>"
NoStore == [id |-> "", type |-> NoType, types |-> {}, viewCount |-> NoCount,
            latitude |-> 0, longitude |-> 0]
NoLocation == [lat |-> 0, lng |-> 0, set |-> FALSE]
fixedLocation == [lat |-> 0, lng |-> 0]

\* The filters the model selects among; TYPE_TO_PLACES_TYPES is given for these.
StoreTypes == {"all", "restaurant", "cafe", "other"}

TYPE_TO_PLACES_TYPES(t) ==
    CASE t = "all" -> {}
      [] t = "restaurant" ->
           {"restaurant", "food", "establishment",
            "american_restaurant", "asian_restaurant", "brazilian_restaurant",
            "chinese_restaurant", "french_restaurant", "italian_restaurant",
            "japanese_restaurant", "korean_restaurant", "mexican_restaurant",
            "breakfast_restaurant", "brunch_restaurant", "buffet_restaurant",
            "dessert_restaurant", "diner", "fine_dining_restaurant",
            "pizza_restaurant", "seafood_restaurant", "steak_house",
            "sushi_restaurant", "vegetarian_restaurant",
            "bar_and_grill", "barbecue_restaurant", "catering_service", "deli"}
      [] t = "cafe" -> {"cafe", "coffee_shop", "internet_cafe", "tea_house"}
      [] t = "other" -> {}
      [] OTHER -> {}

-----------------------------------------------------------------------------
(* Inputs: what the backend, the maps SDK and the user can supply *)

Venue(i, t, tags, vc, lat, lng) ==
    [id |-> i, type |-> t, types |-> tags, viewCount |-> vc,
     latitude |-> lat, longitude |-> lng]

VenueA == Venue("a", "restaurant", {}, 5, 300, 0)
VenueB == Venue("b", "cafe", {"cafe", "food", "establishment"}, NoCount, 0, 1200)
VenueC == Venue("c", NoType, {}, 0, 900, 1200)
FillerIds == <<"f1", "f2", "f3", "f4", "f5", "f6", "f7", "f8", "f9", "f10">>
Filler(k) == Venue(FillerIds[k], "other", {}, NoCount, 100, 0)

LongResponse == <<VenueA, VenueB, VenueC>> \o [k \in 1..NumFillers |-> Filler(k)]

Responses == {<<VenueB, VenueA>>, LongResponse}

TimeOptions == {12, 24}
GpsPositions == {[lat |-> 1000, lng |-> 0], [lat |-> 50000, lng |-> 0]}
TypeChoices == {"all", "restaurant"}
SelectIds == {"a", "c", "d"}

-----------------------------------------------------------------------------
(* Small helpers *)

Min(a, b) == IF a <= b THEN a ELSE b
Abs(a) == IF a < 0 THEN -a ELSE a
Range(f) == {f[i] : i \in DOMAIN f}
Ids(list) == [i \in DOMAIN list |-> list[i].id]

-----------------------------------------------------------------------------
(* src/lib/api.ts: getRecommendations *)

FetchOutcomes ==
    [kind : {"ok"}, stores : Responses, status : {200}, message : {""}]
    \cup [kind : {"http"}, stores : {<<>>}, status : {500}, message : {"Internal Server Error"}]
    \cup [kind : {"TypeError"}, stores : {<<>>}, status : {0},
          message : {"Failed to fetch"}]
    \cup [kind : {"SyntaxError"}, stores : {<<>>}, status : {200},
          message : {"Unexpected token < in JSON"}]

\* The outcomes the model lets a pending request end with: each response,
\* and one failure (the state keeps nothing of a failure but its message).
FetchReplies == {outcome \in FetchOutcomes : outcome.kind \in {"ok", "http"}}

IncludesFailedToFetch(message) == message = "Failed to fetch"

Resolved(list) == [ok |-> TRUE, stores |-> list, isError |-> FALSE, message |-> ""]
Rejected(msg) == [ok |-> FALSE, stores |-> <<>>, isError |-> TRUE, message |-> msg]

\* The value getRecommendations resolves to, or the Error it rejects with.
\* The Korean text of the "cannot reach the backend" message is given in English.
getRecommendations(outcome) ==
    CASE outcome.kind = "ok" -> Resolved(outcome.stores)
      [] outcome.kind = "http" ->
           Rejected("Failed to fetch recommendations: " \o ToString(outcome.status)
                    \o " " \o outcome.message)
      [] outcome.kind = "TypeError" /\ IncludesFailedToFetch(outcome.message) ->
           Rejected("Cannot connect to the backend server. Check that the backend is running.")
      [] OTHER -> Rejected(outcome.message)

-----------------------------------------------------------------------------
(* src/lib/api.ts: incrementPlaceView *)

ViewResponse(network, ok, contentType, text) ==
    [network |-> network, ok |-> ok, contentType |-> contentType, text |-> text]

\* One response per way the call can end, and the two JSON content types.
ViewResponses ==
    {ViewResponse(FALSE, FALSE, "", ""),
     ViewResponse(TRUE, FALSE, "application/json", "7"),
     ViewResponse(TRUE, TRUE, "", "7"),
     ViewResponse(TRUE, TRUE, "text/html", "<html>"),
     ViewResponse(TRUE, TRUE, "text/html", "7"),
     ViewResponse(TRUE, TRUE, "application/json", ""),
     ViewResponse(TRUE, TRUE, "application/json", " "),
     ViewResponse(TRUE, TRUE, "application/json", "<html>"),
     ViewResponse(TRUE, TRUE, "application/json", "\"7\""),
     ViewResponse(TRUE, TRUE, "application/json", "{\"viewCount\":7}"),
     ViewResponse(TRUE, TRUE, "application/json", "null"),
     ViewResponse(TRUE, TRUE, "application/json", "7"),
     ViewResponse(TRUE, TRUE, "application/json;charset=UTF-8", "7")}

\* The replies the model lets a pending call end with: one per result the
\* caller can tell apart (null after a failed request, null after a body
\* that is not a number, a number).
ViewReplies ==
    {ViewResponse(FALSE, FALSE, "", ""),
     ViewResponse(TRUE, TRUE, "application/json", "null"),
     ViewResponse(TRUE, TRUE, "application/json", "7")}

IncludesJson(contentType) ==
    contentType \in {"application/json", "application/json;charset=UTF-8"}

IsBlank(text) == text \in {"", " "}

\* JSON.parse on the bodies above: a SyntaxError, or the parsed value's typeof.
JsonParse(text) ==
    CASE text = "7" -> [threw |-> FALSE, typeof |-> "number", number |-> 7]
      [] text = "8" -> [threw |-> FALSE, typeof |-> "number", number |-> 8]
      [] text = "\"7\"" -> [threw |-> FALSE, typeof |-> "string", number |-> NoCount]
      [] text = "{\"viewCount\":7}" -> [threw |-> FALSE, typeof |-> "object", number |-> NoCount]
      [] text = "null" -> [threw |-> FALSE, typeof |-> "object", number |-> NoCount]
      [] OTHER -> [threw |-> TRUE, typeof |-> "undefined", number |-> NoCount]

Returned(n) == [threw |-> FALSE, value |-> n]
Thrown == [threw |-> TRUE, value |-> NoCount]

\* A variant that lets a network error escape.
IncrementPlaceView_Throws(resp) ==
    IF ~resp.network THEN Thrown ELSE Returned(NoCount)

\* value = NoCount stands for the null the function returns.
IncrementPlaceView(resp) ==
    IF ~resp.network THEN Returned(NoCount)
    ELSE IF ~resp.ok THEN Returned(NoCount)
    ELSE IF resp.contentType = "" \/ ~IncludesJson(resp.contentType) THEN Returned(NoCount)
    ELSE IF IsBlank(resp.text) THEN Returned(NoCount)
    ELSE LET parsed == JsonParse(resp.text) IN
         IF parsed.threw THEN Returned(NoCount)
         ELSE IF parsed.typeof = "number" THEN Returned(parsed.number)
         ELSE Returned(NoCount)

-----------------------------------------------------------------------------
(* src/app/page.tsx: pure parts of Home *)

isLocationInLasVegas(lat, lng) ==
    lat >= -13518 /\ lat <= 19840 /\ lng >= -12115 /\ lng <= 14830

\* The least k in lo..hi with k * k >= sq (Math.sqrt, rounded up).
RECURSIVE CeilSqrt(_, _, _)
CeilSqrt(sq, lo, hi) ==
    IF lo >= hi THEN lo
    ELSE LET mid == (lo + hi) \div 2 IN
         IF mid * mid >= sq THEN CeilSqrt(sq, lo, mid) ELSE CeilSqrt(sq, mid + 1, hi)

\* Great-circle distance over the few kilometres involved, as planar distance
\* rounded up to the radius unit (so that d <= r is decided exactly).
calculateDistance(lat1, lng1, lat2, lng2) ==
    LET sq == 9 * ((lat2 - lat1) * (lat2 - lat1) + (lng2 - lng1) * (lng2 - lng1))
    IN CeilSqrt(sq, 0, 3 * (Abs(lat2 - lat1) + Abs(lng2 - lng1)))

\* Math.round(a / b) for a >= 0, b > 0: halves go up.
RoundDiv(a, b) == (2 * a + b) \div (2 * b)

\* Math.round((meters / 5000) * 60), GoogleMap.tsx:1429-1431 and
\* OptionSelector.tsx:20-23.
distanceToTime(meters) == RoundDiv(meters * 60, 5000)

\* Math.round((minutes / 60) * 5000), GoogleMap.tsx:1434-1436 and
\* OptionSelector.tsx:26-29.
timeToDistance(minutes) == RoundDiv(minutes * 5000, 60)

MinSlider == 100
MaxSlider == 2000

\* Math.max(100, Math.min(2000, timeToDistance(timeOption))), GoogleMap.tsx:1463.
SliderFor(t) ==
    IF timeToDistance(t) < MinSlider THEN MinSlider
    ELSE IF timeToDistance(t) > MaxSlider THEN MaxSlider
    ELSE timeToDistance(t)

\* The timeOption-to-slider effect, GoogleMap.tsx:1461-1466, which does
\* nothing for a timeOption of 0.
SyncSlider(t) == sliderValue' = IF t # 0 THEN SliderFor(t) ELSE sliderValue

\* A variant without the upper limit.
RadiusFor_NoMaximum(t) ==
    LET km == 250 * t IN
    IF km < MinRadius THEN MinRadius ELSE km

RadiusFor(t) ==
    LET km == 250 * t IN
    IF km < MinRadius THEN MinRadius ELSE IF km > MaxRadius THEN MaxRadius ELSE km

\* A variant that filters on the type field alone.
TypeMatches_IgnoringTags(store, t) ==
    t = "all" \/ store.type = t \/ (t = "other" /\ (store.type = NoType \/ store.type = "other"))

TypeMatches(store, t) ==
    IF t = "all" THEN TRUE
    ELSE IF store.types # {} /\ TYPE_TO_PLACES_TYPES(t) # {}
         THEN store.types \cap TYPE_TO_PLACES_TYPES(t) # {}
         ELSE store.type = t \/ (t = "other" /\ (store.type = NoType \/ store.type = "other"))

\* page.tsx:1482-1499, the list the cards are rendered from.
filteredStores(list, t) == SelectSeq(list, LAMBDA s : TypeMatches(s, t))

TypeMatchesByType(store, t) ==
    t = "all" \/ store.type = t \/ (t = "other" /\ (store.type = NoType \/ store.type = "other"))

\* page.tsx:505-522, the distance-gated variant.
filteredStoresWithinCircle(list, t, loc, r) ==
    LET currentLocation == IF loc = NoLocation THEN fixedLocation ELSE loc IN
    SelectSeq(list, LAMBDA s :
        /\ TypeMatchesByType(s, t)
        /\ calculateDistance(currentLocation.lat, currentLocation.lng,
                             s.latitude, s.longitude) <= r)

\* A variant that sends the selected filter.
RequestType_Filter(t) == t

RequestType(t) == "all"

RequestBody(loc, t, ty) ==
    LET currentLocation == IF loc = NoLocation THEN fixedLocation ELSE loc IN
    [latitude |-> currentLocation.lat, longitude |-> currentLocation.lng,
     timeOption |-> t, type |-> RequestType(ty)]

\* Variants that keep venues of the list being replaced.
SuccessStores_Append(prev, response) == prev \o response
SuccessStores_Merge(prev, response) ==
    response \o SelectSeq(prev, LAMBDA s : s.id \notin Range(Ids(response)))

SuccessStores(prev, response) == response
FailureStores(prev) == <<>>

ErrorMessage(err) ==
    IF err.isError THEN err.message ELSE "Failed to load place information."

\* A variant that writes the count into every entry.
PatchViewCount_All(list, id, n) ==
    [i \in DOMAIN list |-> [list[i] EXCEPT !.viewCount = n]]

PatchViewCount(list, id, n) ==
    [i \in DOMAIN list |-> IF list[i].id = id THEN [list[i] EXCEPT !.viewCount = n] ELSE list[i]]

UpdatedStore(store, n) == IF n # NoCount THEN [store EXCEPT !.viewCount = n] ELSE store

\* A variant that never switches the filter.
needsTypeChange_Never(store, t) == FALSE

needsTypeChange(store, t) == store.type # NoType /\ store.type # "all" /\ store.type # t

\* A variant that appends without looking for the id.
handleAddStore_Always(prev, store) == Append(prev, store)

handleAddStore(prev, store) ==
    IF \E i \in DOMAIN prev : prev[i].id = store.id THEN prev ELSE Append(prev, store)

-----------------------------------------------------------------------------
(* History records *)

NoRequest == [latitude |-> 0, longitude |-> 0, timeOption |-> 0, type |-> ""]
NoDone == [id |-> 0, ok |-> FALSE, stores |-> <<>>, dropped |-> FALSE]
NoOp == [call |-> 0, entry |-> "", store |-> NoStore, type |-> "", n |-> NoCount,
         phase |-> "none"]
NoView == [call |-> 0, n |-> NoCount]

-----------------------------------------------------------------------------
(* Home as of page.tsx:661-1715 does not render TrendingPlaces *)

NoTimer == -1
InitialSlider == 1000

\* The useState values of the slider (GoogleMap.tsx:1220) and of the RAG
\* panel (page.tsx:691-692).
PanelIdle ==
    /\ sliderValue = InitialSlider
    /\ sliderInput = NoCount
    /\ ragStores = <<>>
    /\ ragLoading = FALSE
    /\ lastSelect = ""
NoItem == [kind |-> "none", value |-> <<>>]

TrendingNotRendered ==
    /\ mounted = "none"
    /\ now = 0
    /\ previousViewCounts = <<>>
    /\ savedViewCounts = NoItem
    /\ savedTimestamp = NoItem
    /\ storageMode = "ok"
    /\ rotateAt = NoTimer
    /\ currentIndex = 0
    /\ isSliding = FALSE
    /\ slideOn = FALSE
    /\ slideTimeouts = {}
    /\ lastRotate = NoTimer
    /\ seededFrom = <<>>
    /\ did = "none"
    /\ escaped = FALSE
    /\ lateUpdate = FALSE

-----------------------------------------------------------------------------
(* Initial state: the useState initial values, page.tsx:662-698 *)

Init ==
    /\ timeOption = InitialTimeOption
    /\ type = "all"
    /\ location = NoLocation
    /\ stores = <<>>
    /\ loading = FALSE
    /\ error = NoError
    /\ selectedStore = NoStore
    /\ radiusKm = InitialRadius
    /\ displayedCount = PageSize
    /\ geo = "pending"
    /\ inflight = {}
    /\ pendingViews = {}
    /\ timers = {}
    /\ nRequests = 0
    /\ lastRequest = NoRequest
    /\ lastDone = NoDone
    /\ nSelects = 0
    /\ op = NoOp
    /\ lastView = NoView
    /\ TrendingNotRendered
    /\ PanelIdle

-----------------------------------------------------------------------------
(* fetchRecommendations up to its await, page.tsx:850-865, as run by the     *)
(* fetch-on-parameter-change effect, page.tsx:1035-1039.  The effect runs    *)
(* after the render that changed location, timeOption or type, so the        *)
(* request is built from the new values.                                     *)

Dispatch ==
    /\ nRequests < MaxFetches
    /\ loading' = TRUE
    /\ error' = NoError
    /\ selectedStore' = NoStore
    /\ nRequests' = nRequests + 1
    /\ inflight' = inflight \cup {nRequests + 1}
    /\ lastRequest' = RequestBody(location', timeOption', type')

\* The effect's guard "if (location)" fails: nothing is fetched.
NoFetch == UNCHANGED <<loading, error, selectedStore, nRequests, inflight, lastRequest>>

\* A variant whose effect does not depend on the search parameters.
FetchEffect_Off == NoFetch

FetchEffect == IF location' # NoLocation THEN Dispatch ELSE NoFetch

SetLocation(pos) ==
    location' = [lat |-> pos.lat, lng |-> pos.lng, set |-> TRUE]

-----------------------------------------------------------------------------
(* Geolocation, page.tsx:725-815 *)

\* getCurrentPosition succeeds with position pos.
GeoPosition(pos) ==
    /\ geo = "pending"
    /\ IF isLocationInLasVegas(pos.lat, pos.lng)
          THEN SetLocation(pos) /\ geo' = "watching"
          ELSE SetLocation(fixedLocation) /\ geo' = "off"
    /\ UNCHANGED <<timeOption, type>>
    /\ FetchEffect
    /\ op' = NoOp
    /\ UNCHANGED <<stores, radiusKm, displayedCount,
                   pendingViews, timers, lastDone, lastView, nSelects>>
    /\ UNCHANGED <<trendVars, panelVars>>

\* navigator.geolocation is missing, or getCurrentPosition fails.
GeoUnavailable ==
    /\ geo = "pending"
    /\ SetLocation(fixedLocation)
    /\ geo' = "off"
    /\ UNCHANGED <<timeOption, type>>
    /\ FetchEffect
    /\ op' = NoOp
    /\ UNCHANGED <<stores, radiusKm, displayedCount,
                   pendingViews, timers, lastDone, lastView, nSelects>>
    /\ UNCHANGED <<trendVars, panelVars>>

\* A watchPosition callback, page.tsx:753-779.
WatchPosition(pos) ==
    /\ geo = "watching"
    /\ IF isLocationInLasVegas(pos.lat, pos.lng)
          THEN SetLocation(pos) /\ geo' = "watching"
          ELSE SetLocation(fixedLocation) /\ geo' = "off"
    /\ UNCHANGED <<timeOption, type>>
    /\ FetchEffect
    /\ op' = NoOp
    /\ UNCHANGED <<stores, radiusKm, displayedCount,
                   pendingViews, timers, lastDone, lastView, nSelects>>
    /\ UNCHANGED <<trendVars, panelVars>>

-----------------------------------------------------------------------------
(* Search parameters *)

\* onTimeChange = setTimeOption, page.tsx:1342; radius effect, page.tsx:915-921.
SetTimeOption(t) ==
    /\ t # timeOption
    /\ timeOption' = t
    /\ radiusKm' = RadiusFor(t)
    /\ UNCHANGED <<type, location>>
    /\ FetchEffect
    /\ op' = NoOp
    /\ UNCHANGED <<stores, displayedCount, geo, pendingViews,
                   timers, lastDone, lastView, nSelects>>
    /\ SyncSlider(t)
    /\ UNCHANGED <<sliderInput, ragStores, ragLoading, lastSelect>>
    /\ UNCHANGED trendVars

\* onTypeChange = setType, page.tsx:1343.
SetType(t) ==
    /\ t # type
    /\ type' = t
    /\ UNCHANGED <<timeOption, location>>
    /\ FetchEffect
    /\ op' = NoOp
    /\ UNCHANGED <<stores, radiusKm, displayedCount, geo,
                   pendingViews, timers, lastDone, lastView, nSelects>>
    /\ UNCHANGED <<trendVars, panelVars>>

-----------------------------------------------------------------------------
(* Recommendation fetch: the continuation of fetchRecommendations after its  *)
(* await, page.tsx:866-875.  Responses arrive in any order.                  *)

FetchReturn(id, outcome) ==
    LET r == getRecommendations(outcome) IN
    /\ id \in inflight
    /\ inflight' = inflight \ {id}
    /\ IF r.ok
          THEN /\ stores' = SuccessStores(stores, r.stores)
               /\ displayedCount' = PageSize
               /\ error' = error
          ELSE /\ error' = ErrorMessage(r)
               /\ stores' = FailureStores(stores)
               /\ displayedCount' = displayedCount
    /\ loading' = FALSE
    /\ lastDone' = [id |-> id, ok |-> r.ok, stores |-> r.stores,
                     dropped |-> Range(Ids(stores)) \ Range(Ids(r.stores)) # {}]
    /\ UNCHANGED <<timeOption, type, location, selectedStore, radiusKm,
                   geo, pendingViews, timers, nRequests,
                   lastRequest, nSelects, op, lastView>>
    /\ UNCHANGED <<trendVars, panelVars>>

-----------------------------------------------------------------------------
(* Selection: handleMarkerClick, page.tsx:1063-1109, and                     *)
(* handleStoreCardClick, page.tsx:1111-1133.  A call runs up to              *)
(* await incrementPlaceView and resumes in a later task; the handler is the  *)
(* closure of the render it was called in, so it resumes with the type of    *)
(* that render.                                                              *)

ErrorShown == error # NoError /\ error # ""

\* The cards on screen, page.tsx:1479 and 1647-1649.
RenderedCards ==
    IF ~loading /\ ~ErrorShown /\ Len(stores) > 0
    THEN LET f == filteredStores(stores, type)
         IN {f[i] : i \in 1..Min(displayedCount, Len(f))}
    ELSE {}

\* What a marker, the trending strip or the info window can pass to onMarkerClick.
MarkerTargets == Range(stores) \cup ({selectedStore} \ {NoStore})

Suspend(entry, store) ==
    /\ nSelects' = nSelects + 1
    /\ lastSelect' = store.id
    /\ pendingViews' = pendingViews \cup
           {[call |-> nSelects + 1, entry |-> entry, store |-> store, type |-> type]}
    /\ op' = IF pendingViews = {} /\ timers = {}
             THEN [call |-> nSelects + 1, entry |-> entry, store |-> store,
                   type |-> type, n |-> NoCount, phase |-> "await"]
             ELSE NoOp

\* handleMarkerClick(store) up to its await, as one of at most limit select calls.
MarkerClickWithin(store, limit) ==
    /\ nSelects < limit
    /\ store \in MarkerTargets
    /\ store.id \in SelectIds
    /\ Suspend("marker", store)
    /\ UNCHANGED <<timeOption, type, location, stores, loading, error, selectedStore,
                   radiusKm, displayedCount, geo, inflight,
                   timers, nRequests, lastRequest, lastDone, lastView>>
    /\ UNCHANGED <<sliderValue, sliderInput, ragStores, ragLoading>>
    /\ UNCHANGED trendVars

MarkerClick(store) == MarkerClickWithin(store, MaxSelects)

\* handleStoreCardClick(store) up to its await, as one of at most limit select calls.
CardClickWithin(store, limit) ==
    /\ nSelects < limit
    /\ store \in RenderedCards
    /\ store.id \in SelectIds
    /\ Suspend("card", store)
    /\ UNCHANGED <<timeOption, type, location, stores, loading, error, selectedStore,
                   radiusKm, displayedCount, geo, inflight,
                   timers, nRequests, lastRequest, lastDone, lastView>>
    /\ UNCHANGED <<sliderValue, sliderInput, ragStores, ragLoading>>
    /\ UNCHANGED trendVars

CardClick(store) == CardClickWithin(store, MaxSelects)

\* handleMarkerClick(null), page.tsx:1105-1108.
MarkerClickNull ==
    /\ selectedStore # NoStore
    /\ selectedStore' = NoStore
    /\ lastSelect' = ""
    /\ op' = NoOp
    /\ UNCHANGED <<timeOption, type, location, stores, loading, error, radiusKm,
                   displayedCount, geo, inflight, pendingViews, timers, nRequests,
                   lastRequest, lastDone, lastView, nSelects>>
    /\ UNCHANGED <<sliderValue, sliderInput, ragStores, ragLoading>>
    /\ UNCHANGED trendVars

\* The handler resumes with the result of incrementPlaceView.
ViewReturn(p, resp) ==
    LET result == IncrementPlaceView(resp)
        n == result.value
        updatedStore == UpdatedStore(p.store, n)
        deferred == p.entry = "marker" /\ needsTypeChange(updatedStore, p.type)
    IN
    /\ p \in pendingViews
    /\ pendingViews' = pendingViews \ {p}
    /\ lastView' = [call |-> p.call, n |-> n]
    /\ UNCHANGED <<timeOption, location, radiusKm, displayedCount, geo, lastDone, nSelects>>
    /\ IF result.threw
          THEN \* the async handler rejects: nothing after the await runs
               /\ op' = NoOp
               /\ UNCHANGED <<type, stores, loading, error, selectedStore,
                              inflight, timers, nRequests, lastRequest>>
          ELSE /\ stores' = IF n # NoCount THEN PatchViewCount(stores, p.store.id, n)
                                           ELSE stores
               /\ IF deferred
                     THEN /\ type' = updatedStore.type
                          /\ timers' = timers \cup {[call |-> p.call, store |-> updatedStore]}
                          /\ IF type' # type THEN FetchEffect
                             ELSE UNCHANGED <<loading, error, selectedStore, nRequests,
                                              inflight, lastRequest>>
                     ELSE /\ selectedStore' = updatedStore
                          /\ UNCHANGED <<type, timers, loading, error, nRequests,
                                         inflight, lastRequest>>
               /\ op' = IF op.call = p.call
                        THEN [op EXCEPT !.n = n,
                                        !.phase = IF deferred THEN "timer" ELSE "settled"]
                        ELSE op
    /\ UNCHANGED <<trendVars, panelVars>>

\* The 800 ms timer of handleMarkerClick fires, page.tsx:1094-1098.
TimerFire(t) ==
    /\ t \in timers
    /\ timers' = timers \ {t}
    /\ selectedStore' = t.store
    /\ op' = IF op.call = t.call THEN [op EXCEPT !.phase = "settled"] ELSE op
    /\ UNCHANGED <<timeOption, type, location, stores, loading, error, radiusKm,
                   displayedCount, geo, inflight, pendingViews, nRequests, lastRequest,
                   lastDone, lastView, nSelects>>
    /\ UNCHANGED <<trendVars, panelVars>>

-----------------------------------------------------------------------------
(* A click on a map place that the maps SDK resolves to place details,       *)
(* GoogleMap.tsx:1799-1886: a recommended venue at the same coordinates is   *)
(* selected, any other place is converted to a Store, appended by            *)
(* handleAddStore and selected.                                              *)

\* A place whose id the backend also returns (venue a), with coordinates
\* 300 m off the backend's: it matches no venue of the list by coordinates
\* and is converted to a Store of that id.
MapPlaces == {[placeId |-> "a", types |-> <<"coffee_shop", "cafe", "food">>,
               lat |-> 600, lng |-> 0]}

SupportedTypes == {"restaurant", "cafe", "bar", "food", "bakery", "meal_delivery",
                   "night_club", "liquor_store", "store", "shopping_mall",
                   "supermarket", "convenience_store"}

RECURSIVE FirstSupported(_)
FirstSupported(types) ==
    IF types = <<>> THEN "other"
    ELSE IF Head(types) \in SupportedTypes THEN Head(types)
    ELSE FirstSupported(Tail(types))

determinePlaceType(types) ==
    IF types = <<>> THEN "other"
    ELSE IF "meal_takeaway" \in Range(types) \/ "fast_food" \in Range(types) THEN "fastfood"
    ELSE FirstSupported(types)

NewStore(place) ==
    [id |-> place.placeId, type |-> determinePlaceType(place.types), types |-> {},
     viewCount |-> NoCount, latitude |-> place.lat, longitude |-> place.lng]

SameCoordinates(store, place) ==
    Abs(store.latitude - place.lat) < 11 /\ Abs(store.longitude - place.lng) < 9

PlaceClick(place) ==
    LET matching == SelectSeq(stores, LAMBDA s : SameCoordinates(s, place)) IN
    /\ nSelects < MaxSelects
    /\ IF matching # <<>>
          THEN /\ Suspend("marker", Head(matching))
               /\ stores' = stores
          ELSE /\ Suspend("marker", NewStore(place))
               /\ stores' = handleAddStore(stores, NewStore(place))
    /\ UNCHANGED <<timeOption, type, location, loading, error, selectedStore,
                   radiusKm, displayedCount, geo, inflight,
                   timers, nRequests, lastRequest, lastDone, lastView>>
    /\ UNCHANGED <<sliderValue, sliderInput, ragStores, ragLoading>>
    /\ UNCHANGED trendVars

-----------------------------------------------------------------------------
(* Infinite scroll, page.tsx:1042-1061: the load-more sentinel, rendered     *)
(* while cards remain (page.tsx:1678), scrolls into view.                    *)

\* A variant without the cap.
NextDisplayedCount_Uncapped(prev, total) == prev + PageSize

\* The updater passed to setDisplayedCount, page.tsx:1050.
NextDisplayedCount(prev, total) == Min(prev + PageSize, total)

LoadMore ==
    /\ ~loading /\ ~ErrorShown /\ Len(stores) > 0
    /\ displayedCount < Len(stores)
    /\ displayedCount < Len(filteredStores(stores, type))
    /\ displayedCount' = NextDisplayedCount(displayedCount, Len(stores))
    /\ UNCHANGED <<timeOption, type, location, stores, loading, error, selectedStore,
                   radiusKm, geo, inflight, pendingViews, timers,
                   nRequests, lastRequest, lastDone, lastView, nSelects, op>>
    /\ UNCHANGED <<trendVars, panelVars>>

-----------------------------------------------------------------------------

Next ==
    \/ \E pos \in GpsPositions : GeoPosition(pos)
    \/ GeoUnavailable
    \/ \E pos \in GpsPositions : WatchPosition(pos)
    \/ \E t \in TimeOptions : SetTimeOption(t)
    \/ \E t \in TypeChoices : SetType(t)
    \/ \E id \in inflight, outcome \in FetchReplies : FetchReturn(id, outcome)
    \/ \E store \in MarkerTargets : MarkerClick(store)
    \/ \E store \in RenderedCards : CardClick(store)
    \/ MarkerClickNull
    \/ \E p \in pendingViews, resp \in ViewReplies : ViewReturn(p, resp)
    \/ \E t \in timers : TimerFire(t)
    \/ \E place \in MapPlaces : PlaceClick(place)
    \/ LoadMore

Spec == Init /\ [][Next]_vars

-----------------------------------------------------------------------------
(* The derived list on its own: filteredStores is a function of the venue    *)
(* list, the filter, the origin and the radius (page.tsx:1479-1499 and       *)
(* 505-522).  FilterInit draws these from bounded sets, wider than the       *)
(* backend responses above, and Refilter derives the list under another      *)
(* filter.                                                                   *)

VenueD == Venue("d", "restaurant", {"bar", "point_of_interest"}, 2, 0, 1500)
FilterPool == {VenueA, VenueB, VenueC, VenueD, Filler(1)}

FilterLists ==
    UNION {{list \in [1..n -> FilterPool] :
               \A i, j \in 1..n : i # j => list[i] # list[j]} : n \in 0..MaxListLen}

FilterInit ==
    /\ stores \in FilterLists
    /\ type = "all"
    /\ location \in {NoLocation} \cup
           {[lat |-> pos.lat, lng |-> pos.lng, set |-> TRUE] :
               pos \in {fixedLocation} \cup {p \in GpsPositions :
                                                isLocationInLasVegas(p.lat, p.lng)}}
    /\ timeOption \in TimeOptions
    /\ radiusKm \in {InitialRadius, RadiusFor(timeOption)}
    /\ loading = FALSE
    /\ error = NoError
    /\ selectedStore = NoStore
    /\ displayedCount = PageSize
    /\ geo = "off"
    /\ inflight = {}
    /\ pendingViews = {}
    /\ timers = {}
    /\ nRequests = 0
    /\ lastRequest = NoRequest
    /\ lastDone = NoDone
    /\ nSelects = 0
    /\ op = NoOp
    /\ lastView = NoView
    /\ TrendingNotRendered
    /\ PanelIdle

\* The list is derived again, under filter t.
Refilter(t) ==
    /\ t # type
    /\ type' = t
    /\ UNCHANGED <<timeOption, location, stores, loading, error, selectedStore,
                   radiusKm, displayedCount, geo, inflight, pendingViews, timers,
                   nRequests, lastRequest, lastDone, nSelects, op, lastView>>
    /\ UNCHANGED <<trendVars, panelVars>>

FilterNext == \E t \in StoreTypes : Refilter(t)

SpecFilter == FilterInit /\ [][FilterNext]_vars

-----------------------------------------------------------------------------
(* Infinite scroll on its own: the list is on screen (a fetch has completed, *)
(* origin set, nothing in flight) and the load-more sentinel scrolls into    *)
(* view again and again.  ScrollInit draws the venue list and the filter     *)
(* from bounded sets: the first m venues are restaurants, the others cafes.  *)

MaxScrollLen == 22

ScrollVenue(k, t) == Venue("s" \o ToString(k), t, {}, NoCount, 100, 0)

ScrollList(n, m) ==
    [k \in 1..n |-> ScrollVenue(k, IF k <= m THEN "restaurant" ELSE "cafe")]

ScrollLists == {ScrollList(n, m) : n \in 0..MaxScrollLen, m \in 0..MaxScrollLen}

ScrollInit ==
    /\ stores \in ScrollLists
    /\ type \in StoreTypes
    /\ location = [lat |-> fixedLocation.lat, lng |-> fixedLocation.lng, set |-> TRUE]
    /\ timeOption = InitialTimeOption
    /\ radiusKm = RadiusFor(timeOption)
    /\ loading = FALSE
    /\ error = NoError
    /\ selectedStore = NoStore
    /\ displayedCount = PageSize
    /\ geo = "off"
    /\ inflight = {}
    /\ pendingViews = {}
    /\ timers = {}
    /\ nRequests = 0
    /\ lastRequest = NoRequest
    /\ lastDone = NoDone
    /\ nSelects = 0
    /\ op = NoOp
    /\ lastView = NoView
    /\ TrendingNotRendered
    /\ PanelIdle

ScrollNext == LoadMore

SpecScroll == ScrollInit /\ [][ScrollNext]_vars

-----------------------------------------------------------------------------
(* src/components/TrendingPlaces.tsx: the view-count snapshot.               *)
(* TrendingPlaces is rendered by a parent that passes it the venue list      *)
(* (page.tsx:392-397); the parent replaces the list when a fetch completes   *)
(* and patches a view count when a venue is selected.  Time is in minutes.   *)

MaxTime == 32
MaxPatches == 2

StartTime == 20
RotatePeriod == 10
TopCount == 3

\* a ?? d
Nullish(a, d) == IF a = NoCount THEN d ELSE a
Max(a, b) == IF a >= b THEN a ELSE b

TrendVenue(i, vc, inc) == [id |-> i, viewCount |-> vc, viewCountIncrease |-> inc]

TrackerLists ==
    {<<>>,
     <<TrendVenue("a", 10, NoCount), TrendVenue("b", NoCount, NoCount)>>,
     <<TrendVenue("a", 10, 0), TrendVenue("b", 3, 5), TrendVenue("c", 4, NoCount)>>}

PatchCounts == {15, 20}

EmptyCounts == [id \in {} |-> 0]

\* The items localStorage may hold when the session starts: nothing, a
\* snapshot 11, 10 or 9 minutes old, a snapshot that is not JSON, a snapshot
\* whose timestamp is not a number.
JsonItem(counts) == [kind |-> "json", value |-> counts]
NumberItem(n) == [kind |-> "number", value |-> n]
CorruptItem == [kind |-> "corrupt", value |-> <<>>]
StoredCounts == [id \in {"a", "b"} |-> IF id = "a" THEN 12 ELSE 1]

PersistedItems ==
    {<<NoItem, NoItem>>}
    \cup {<<JsonItem(StoredCounts), NumberItem(StartTime - age)>> :
             age \in {RotatePeriod - 1, RotatePeriod, RotatePeriod + 1}}
    \cup {<<CorruptItem, NumberItem(StartTime - 1)>>,
          <<JsonItem(StoredCounts), CorruptItem>>}

StorageModes == {"ok", "getThrows", "setThrows"}

\* A variant without the clamp at 0.
viewCountIncrease_Unclamped(store, baseline) ==
    LET increase == Nullish(store.viewCountIncrease, 0) IN
    IF increase = 0 /\ store.viewCount # NoCount
    THEN Nullish(store.viewCount, 0)
            - (IF store.id \in DOMAIN baseline THEN baseline[store.id]
               ELSE Nullish(store.viewCount, 0))
    ELSE increase

\* The per-venue increase of trendingStores, GoogleMap.tsx:1441-1443, which
\* keeps no baseline.
trendingIncrease(store) == Nullish(store.viewCountIncrease, 0)

\* The per-venue increase of topStores, TrendingPlaces.tsx:74-82.
viewCountIncrease(store, baseline) ==
    LET increase == Nullish(store.viewCountIncrease, 0) IN
    IF increase = 0 /\ store.viewCount # NoCount
    THEN LET currentViewCount == Nullish(store.viewCount, 0)
             previousViewCount == IF store.id \in DOMAIN baseline
                                  THEN baseline[store.id]
                                  ELSE currentViewCount
         IN Max(0, currentViewCount - previousViewCount)
    ELSE increase

\* The object built by stores.forEach(store => counts[store.id] = store.viewCount ?? 0).
currentViewCounts(list) ==
    [id \in Range(Ids(list)) |->
        LET last == CHOOSE i \in DOMAIN list :
                        list[i].id = id /\ \A j \in DOMAIN list : list[j].id = id => j <= i
        IN Nullish(list[last].viewCount, 0)]

\* savedViewCounts && savedTimestamp
ItemsPresent == savedViewCounts.kind # "none" /\ savedTimestamp.kind # "none"

\* now - parseInt(savedTimestamp, 10) < tenMinutes; false when parseInt gives NaN.
SnapshotFresh ==
    savedTimestamp.kind = "number" /\ now - savedTimestamp.value < RotatePeriod

TrackerKeeps == UNCHANGED <<previousViewCounts, savedViewCounts, savedTimestamp, seededFrom>>

\* setPreviousViewCounts(counts of list), then the two setItem calls; a setItem
\* that throws leaves both items as they were.
Reseed(list) ==
    /\ previousViewCounts' = currentViewCounts(list)
    /\ seededFrom' = list
    /\ IF storageMode = "setThrows"
          THEN UNCHANGED <<savedViewCounts, savedTimestamp>>
          ELSE /\ savedViewCounts' = JsonItem(currentViewCounts(list))
               /\ savedTimestamp' = NumberItem(now)

\* A variant that reuses the stored snapshot whatever its age.
initialize_NoExpiry(list) ==
    IF Len(list) = 0 \/ DOMAIN previousViewCounts # {}
    THEN TrackerKeeps /\ did' = "skip"
    ELSE IF storageMode = "getThrows"
    THEN TrackerKeeps /\ did' = "caught"
    ELSE IF ItemsPresent
    THEN IF savedViewCounts.kind = "corrupt"
         THEN TrackerKeeps /\ did' = "caught"
         ELSE /\ previousViewCounts' = savedViewCounts.value
              /\ UNCHANGED <<savedViewCounts, savedTimestamp, seededFrom>>
              /\ did' = "reuse"
    ELSE Reseed(list) /\ did' = "seed"

\* A variant that seeds the baseline with zeros.
initialize_FromZero(list) ==
    IF Len(list) = 0 \/ DOMAIN previousViewCounts # {}
    THEN TrackerKeeps /\ did' = "skip"
    ELSE /\ previousViewCounts' = [id \in Range(Ids(list)) |-> 0]
         /\ UNCHANGED <<savedViewCounts, savedTimestamp>>
         /\ seededFrom' = list
         /\ did' = "seed"

\* The snapshot initialization effect, TrendingPlaces.tsx:112-151, run for the
\* list the parent has just passed.
initialize(list) ==
    IF Len(list) = 0 \/ DOMAIN previousViewCounts # {}
    THEN TrackerKeeps /\ did' = "skip"
    ELSE IF storageMode = "getThrows"
    THEN TrackerKeeps /\ did' = "caught"
    ELSE IF ItemsPresent
    THEN IF SnapshotFresh
         THEN IF savedViewCounts.kind = "corrupt"
              THEN TrackerKeeps /\ did' = "caught"
              ELSE /\ previousViewCounts' = savedViewCounts.value
                   /\ UNCHANGED <<savedViewCounts, savedTimestamp, seededFrom>>
                   /\ did' = "reuse"
         ELSE Reseed(list) /\ did' = "reseed"
    ELSE Reseed(list) /\ did' = "seed"

\* The rotation interval effect, TrendingPlaces.tsx:154-167: its cleanup
\* clears the interval and a new one is set, due ten minutes from now.
RestartInterval == rotateAt' = now + RotatePeriod

slideVars == <<currentIndex, isSliding, slideOn, slideTimeouts, lateUpdate>>

\* topStores.length, on which the auto-slide effect and the index reset depend.
topLength(list) == Min(TopCount, Len(list))

\* The timeouts pending when an effect is cleaned up or the view is torn
\* down: nothing clears them; they are marked as belonging to what is gone.
Orphaned(timeouts) == {[t EXCEPT !.stale = TRUE] : t \in timeouts}

\* The auto-slide effect and the index reset on the first render,
\* TrendingPlaces.tsx:170-194 (isExpanded is true unless the user collapses
\* the strip).
StartSlide(list) ==
    /\ slideOn' = (topLength(list) > 1)
    /\ currentIndex' = 0
    /\ UNCHANGED <<isSliding, slideTimeouts, lateUpdate>>

\* The same two effects when the parent passes a list: they run only when
\* topStores.length has changed; the cleanup clears the interval alone.
RestartSlide(list) ==
    IF topLength(list) = topLength(stores)
    THEN UNCHANGED slideVars
    ELSE /\ slideOn' = (topLength(list) > 1)
         /\ currentIndex' = 0
         /\ slideTimeouts' = Orphaned(slideTimeouts)
         /\ UNCHANGED <<isSliding, lateUpdate>>

HomeIdle ==
    /\ timeOption = InitialTimeOption
    /\ type = "all"
    /\ location = NoLocation
    /\ loading = FALSE
    /\ error = NoError
    /\ selectedStore = NoStore
    /\ radiusKm = InitialRadius
    /\ displayedCount = PageSize
    /\ geo = "pending"
    /\ inflight = {}
    /\ pendingViews = {}
    /\ timers = {}
    /\ nRequests = 0
    /\ lastRequest = NoRequest
    /\ lastDone = NoDone
    /\ nSelects = 0
    /\ op = NoOp
    /\ lastView = NoView
    /\ PanelIdle

TrackerInit ==
    /\ stores \in TrackerLists
    /\ mounted = "new"
    /\ now = StartTime
    /\ previousViewCounts = EmptyCounts
    /\ \E items \in PersistedItems :
          savedViewCounts = items[1] /\ savedTimestamp = items[2]
    /\ storageMode \in StorageModes
    /\ rotateAt = NoTimer
    /\ currentIndex = 0
    /\ isSliding = FALSE
    /\ slideOn = FALSE
    /\ slideTimeouts = {}
    /\ lastRotate = NoTimer
    /\ seededFrom = <<>>
    /\ did = "none"
    /\ escaped = FALSE
    /\ lateUpdate = FALSE
    /\ timeOption = InitialTimeOption
    /\ type = "all"
    /\ location = NoLocation
    /\ loading = FALSE
    /\ error = NoError
    /\ selectedStore = NoStore
    /\ radiusKm = InitialRadius
    /\ displayedCount = PageSize
    /\ geo = "pending"
    /\ inflight = {}
    /\ pendingViews = {}
    /\ timers = {}
    /\ nRequests = 0
    /\ lastRequest = NoRequest
    /\ lastDone = NoDone
    /\ nSelects = 0
    /\ op = NoOp
    /\ lastView = NoView
    /\ PanelIdle

\* The effects of the first render.
MountEffects ==
    /\ mounted = "new"
    /\ mounted' = "live"
    /\ initialize(stores)
    /\ RestartInterval
    /\ lastRotate' = now
    /\ StartSlide(stores)
    /\ UNCHANGED <<stores, now, storageMode, escaped, homeVars, panelVars>>

\* The parent passes a new list: a fetch completed (setStores(response.stores)
\* or setStores([])).
StoresProp(list) ==
    /\ mounted = "live"
    /\ stores' = list
    /\ initialize(list)
    /\ RestartInterval
    /\ RestartSlide(list)
    /\ UNCHANGED <<mounted, now, storageMode, lastRotate, escaped, homeVars, panelVars>>

\* The parent passes the list with one view count patched (page.tsx:1073-1079).
PatchProp(id, n) ==
    /\ mounted = "live"
    /\ (\E i \in DOMAIN stores : stores[i].id = id)
    /\ nSelects < MaxPatches
    /\ nSelects' = nSelects + 1
    /\ stores' = PatchViewCount(stores, id, n)
    /\ initialize(stores')
    /\ RestartInterval
    /\ UNCHANGED <<mounted, now, storageMode, lastRotate, escaped, slideVars,
                   timeOption, type, location, loading, error, selectedStore,
                   radiusKm, displayedCount, geo, inflight, pendingViews, timers,
                   nRequests, lastRequest, lastDone, op, lastView, panelVars>>

\* The interval callback, TrendingPlaces.tsx:155-164: no try around setItem.
Rotate ==
    /\ mounted = "live"
    /\ rotateAt = now
    /\ previousViewCounts' = currentViewCounts(stores)
    /\ seededFrom' = stores
    /\ IF storageMode = "setThrows"
          THEN /\ UNCHANGED <<savedViewCounts, savedTimestamp>>
               /\ escaped' = TRUE
          ELSE /\ savedViewCounts' = JsonItem(currentViewCounts(stores))
               /\ savedTimestamp' = NumberItem(now)
               /\ escaped' = escaped
    /\ rotateAt' = now + RotatePeriod
    /\ lastRotate' = now
    /\ did' = "rotate"
    /\ UNCHANGED <<stores, mounted, now, storageMode, homeVars, panelVars, slideVars>>

\* A minute passes; a timer that is due fires first.
Tick ==
    /\ mounted = "live"
    /\ now < MaxTime
    /\ rotateAt # now
    /\ now' = now + 1
    /\ did' = "none"
    /\ UNCHANGED <<stores, mounted, previousViewCounts, savedViewCounts, savedTimestamp,
                   storageMode, rotateAt, lastRotate, seededFrom, escaped,
                   homeVars, panelVars, slideVars>>

\* The parent stops rendering TrendingPlaces: the cleanups clear the two
\* intervals.
Unmount ==
    /\ mounted = "live"
    /\ mounted' = "gone"
    /\ rotateAt' = NoTimer
    /\ slideOn' = FALSE
    /\ slideTimeouts' = Orphaned(slideTimeouts)
    /\ did' = "none"
    /\ UNCHANGED <<stores, now, previousViewCounts, savedViewCounts, savedTimestamp,
                   storageMode, lastRotate, seededFrom, escaped, homeVars, panelVars,
                   currentIndex, isSliding, lateUpdate>>

\* The auto-slide interval fires, TrendingPlaces.tsx:173-187: three seconds
\* after the effect ran or after the last tick, so every timeout of an
\* earlier tick (350 ms, then a frame and 10 ms) has fired by then.
SlideTick ==
    /\ mounted = "live"
    /\ slideOn
    /\ slideTimeouts = {}
    /\ isSliding' = TRUE
    /\ slideTimeouts' = {[kind |-> "advance", length |-> topLength(stores), stale |-> FALSE]}
    /\ did' = "none"
    /\ UNCHANGED <<stores, mounted, now, previousViewCounts, savedViewCounts,
                   savedTimestamp, storageMode, rotateAt, lastRotate, seededFrom,
                   escaped, homeVars, panelVars, currentIndex, slideOn, lateUpdate>>

\* A pending timeout fires.  The one set for 350 ms advances the index,
\* modulo the length its effect saw, and asks for the one that ends the
\* slide.  State updates of a view that is gone change nothing.
TimeoutFire(t) ==
    /\ t \in slideTimeouts
    /\ IF t.kind = "advance"
          THEN /\ currentIndex' = IF mounted = "live"
                                  THEN (currentIndex + 1) % t.length
                                  ELSE currentIndex
               /\ slideTimeouts' = (slideTimeouts \ {t}) \cup {[t EXCEPT !.kind = "settle"]}
               /\ UNCHANGED isSliding
          ELSE /\ isSliding' = IF mounted = "live" THEN FALSE ELSE isSliding
               /\ slideTimeouts' = slideTimeouts \ {t}
               /\ UNCHANGED currentIndex
    /\ lateUpdate' = (lateUpdate \/ t.stale)
    /\ did' = "none"
    /\ UNCHANGED <<stores, mounted, now, previousViewCounts, savedViewCounts,
                   savedTimestamp, storageMode, rotateAt, lastRotate, seededFrom,
                   escaped, homeVars, panelVars, slideOn>>

TrackerNext ==
    \/ MountEffects
    \/ \E list \in TrackerLists : StoresProp(list)
    \/ \E id \in {"a", "b"}, n \in PatchCounts : PatchProp(id, n)
    \/ Rotate
    \/ Tick
    \/ Unmount

SpecTracker == TrackerInit /\ [][TrackerNext]_vars

-----------------------------------------------------------------------------
(* The timers of the trending view together: the rotation interval, the     *)
(* auto-slide interval and the timeouts its ticks set.  The storage works    *)
(* and is empty.                                                             *)

\* The lists the parent passes here: those of SpecTracker, and one of a
\* single venue.
SlideLists == TrackerLists \cup {<<TrendVenue("a", 10, NoCount)>>}

SlideInit ==
    /\ stores \in SlideLists
    /\ mounted = "new"
    /\ now = StartTime
    /\ previousViewCounts = EmptyCounts
    /\ savedViewCounts = NoItem
    /\ savedTimestamp = NoItem
    /\ storageMode = "ok"
    /\ rotateAt = NoTimer
    /\ currentIndex = 0
    /\ isSliding = FALSE
    /\ slideOn = FALSE
    /\ slideTimeouts = {}
    /\ lastRotate = NoTimer
    /\ seededFrom = <<>>
    /\ did = "none"
    /\ escaped = FALSE
    /\ lateUpdate = FALSE
    /\ HomeIdle

SlideNext ==
    \/ MountEffects
    \/ \E list \in SlideLists : StoresProp(list)
    \/ Rotate
    \/ Tick
    \/ Unmount
    \/ SlideTick
    \/ \E t \in slideTimeouts : TimeoutFire(t)

SpecSlide == SlideInit /\ [][SlideNext]_vars

-----------------------------------------------------------------------------
(* Selection on its own: the origin is the fixed location, one fetch has     *)
(* completed with a list, nothing is in flight, and the user makes up to     *)
(* MaxCalls select calls (markers, cards, null) whose view-increment calls   *)
(* and timers complete in any order.  A filter change made by a select call  *)
(* dispatches a fetch, which completes as in Spec.                           *)

MaxCalls == 2

\* The lists the backend returns here: those of Spec, and one with venue d,
\* whose type is restaurant and whose place-type tags are those of a bar.
SelectLists == Responses \cup {<<VenueD, VenueA>>}

SelectReplies ==
    FetchReplies \cup {[kind |-> "ok", stores |-> <<VenueD, VenueA>>, status |-> 200,
                        message |-> ""]}

SelectInit ==
    /\ stores \in SelectLists
    /\ timeOption = InitialTimeOption
    /\ type = "all"
    /\ location = [lat |-> fixedLocation.lat, lng |-> fixedLocation.lng, set |-> TRUE]
    /\ loading = FALSE
    /\ error = NoError
    /\ selectedStore = NoStore
    /\ radiusKm = RadiusFor(timeOption)
    /\ displayedCount = PageSize
    /\ geo = "off"
    /\ inflight = {}
    /\ pendingViews = {}
    /\ timers = {}
    /\ nRequests = 1
    /\ lastRequest = RequestBody(location, timeOption, type)
    /\ lastDone = [id |-> 1, ok |-> TRUE, stores |-> stores, dropped |-> FALSE]
    /\ nSelects = 0
    /\ op = NoOp
    /\ lastView = NoView
    /\ TrendingNotRendered
    /\ sliderValue = SliderFor(timeOption)
    /\ sliderInput = NoCount
    /\ ragStores = <<>>
    /\ ragLoading = FALSE
    /\ lastSelect = ""

\* The server counts every view: two calls for one venue are answered with
\* two different counts, and either answer can arrive first.
SelectViewReplies ==
    ViewReplies \cup {ViewResponse(TRUE, TRUE, "application/json", "8")}

SelectNext ==
    \/ \E store \in MarkerTargets : MarkerClickWithin(store, MaxCalls)
    \/ \E store \in RenderedCards : CardClickWithin(store, MaxCalls)
    \/ MarkerClickNull
    \/ \E p \in pendingViews, resp \in SelectViewReplies : ViewReturn(p, resp)
    \/ \E t \in timers : TimerFire(t)
    \/ \E id \in inflight, outcome \in SelectReplies : FetchReturn(id, outcome)

SpecSelect == SelectInit /\ [][SelectNext]_vars

-----------------------------------------------------------------------------
(* The natural-language (RAG) query, page.tsx:879-911, on a page whose list  *)
(* is loaded.  The text field and its button are part of the list block      *)
(* (page.tsx:1479-1570), so a query can be sent only while the list is on    *)
(* screen; ragLoading is true exactly while the query is pending.  The type  *)
(* filter, the walking time, the fetch they dispatch and the page increment  *)
(* go on meanwhile.                                                          *)

\* What the RAG endpoint can answer: a body with a stores array, a body
\* without one, a non-2xx status, no connection.
RagOutcomes ==
    {[kind |-> "ok", isArray |-> TRUE, stores |-> <<VenueC, VenueA>>, status |-> 200,
      message |-> ""],
     [kind |-> "ok", isArray |-> FALSE, stores |-> <<>>, status |-> 200, message |-> ""],
     [kind |-> "http", isArray |-> FALSE, stores |-> <<>>, status |-> 500,
      message |-> "Internal Server Error"],
     [kind |-> "TypeError", isArray |-> FALSE, stores |-> <<>>, status |-> 0,
      message |-> "Failed to fetch"]}

\* src/lib/api.ts:93-130.
getRagRecommendations(outcome) ==
    CASE outcome.kind = "ok" ->
           Resolved(IF outcome.isArray THEN outcome.stores ELSE <<>>)
      [] outcome.kind = "http" ->
           Rejected("Failed to fetch RAG recommendations: " \o ToString(outcome.status)
                    \o " " \o outcome.message)
      [] outcome.kind = "TypeError" /\ IncludesFailedToFetch(outcome.message) ->
           Rejected("Cannot connect to the backend server. Check that the backend is running.")
      [] OTHER -> Rejected(outcome.message)

\* Enter or the arrow button with a non-blank text: fetchRagRecommendations
\* up to its await, page.tsx:879-884.
RagAsk ==
    /\ ~loading /\ ~ErrorShown /\ Len(stores) > 0
    /\ ~ragLoading
    /\ ragLoading' = TRUE
    /\ error' = NoError
    /\ UNCHANGED <<timeOption, type, location, stores, loading, selectedStore, radiusKm,
                   displayedCount, geo, inflight, pendingViews, timers, nRequests,
                   lastRequest, lastDone, lastView, nSelects, op>>
    /\ UNCHANGED <<sliderValue, sliderInput, ragStores, lastSelect>>
    /\ UNCHANGED trendVars

\* fetchRagRecommendations after its await, page.tsx:886-910.
RagReturn(outcome) ==
    LET r == getRagRecommendations(outcome) IN
    /\ ragLoading
    /\ ragLoading' = FALSE
    /\ IF r.ok
          THEN /\ ragStores' = r.stores
               /\ error' = error
          ELSE /\ error' = ErrorMessage(r)
               /\ ragStores' = <<>>
    /\ UNCHANGED <<timeOption, type, location, stores, loading, selectedStore, radiusKm,
                   displayedCount, geo, inflight, pendingViews, timers, nRequests,
                   lastRequest, lastDone, lastView, nSelects, op>>
    /\ UNCHANGED <<sliderValue, sliderInput, lastSelect>>
    /\ UNCHANGED trendVars

RagInit == SelectInit

RagNext ==
    \/ RagAsk
    \/ \E outcome \in RagOutcomes : RagReturn(outcome)
    \/ \E t \in TypeChoices : SetType(t)
    \/ \E t \in TimeOptions : SetTimeOption(t)
    \/ \E id \in inflight, outcome \in FetchReplies : FetchReturn(id, outcome)
    \/ LoadMore

SpecRag == RagInit /\ [][RagNext]_vars

-----------------------------------------------------------------------------
(* The search radius on its own: Home is constructed, the radius effect      *)
(* (page.tsx:915-921) runs with the effects of the first render, before any  *)
(* event can be handled, and then again whenever the map reports another     *)
(* walking time.  The walking times are drawn from 0..MaxMinutes and 9999.   *)
(* handleRadiusChange (page.tsx:924-926) is passed to no component and is    *)
(* never called, so it is no action.                                         *)

MaxMinutes == 120

RadiusMinutes == 0..MaxMinutes \cup {9999}

\* The radius effect has run for the current timeOption.  (The useState
\* value of page.tsx:682 is 1.5 km, the effect's value for 24 minutes 2 km.)
RadiusEffectRan == radiusKm = RadiusFor(timeOption)

\* The radius effect among the effects of the first render, with the map's
\* timeOption-to-slider effect (GoogleMap.tsx:1461-1466) of the same render.
RadiusEffect ==
    /\ ~RadiusEffectRan
    /\ radiusKm' = RadiusFor(timeOption)
    /\ SyncSlider(timeOption)
    /\ UNCHANGED <<timeOption, type, location, stores, loading, error, selectedStore,
                   displayedCount, geo, inflight, pendingViews, timers,
                   nRequests, lastRequest, lastDone, nSelects, op, lastView>>
    /\ UNCHANGED <<sliderInput, ragStores, ragLoading, lastSelect>>
    /\ UNCHANGED trendVars

RadiusNext ==
    \/ RadiusEffect
    \/ \E t \in RadiusMinutes : RadiusEffectRan /\ SetTimeOption(t)

SpecRadius == Init /\ [][RadiusNext]_vars

-----------------------------------------------------------------------------
(* The distance slider of the map and its feedback loop: the user moves the  *)
(* slider, the parent receives the walking time, and the map's effect sets   *)
(* the slider from the walking time.  The input element offers the           *)
(* positions 100, 150, ..., 2000 (GoogleMap.tsx:2471-2474); MaxSliderSteps   *)
(* of them are drawn.  OptionSelector.tsx:63-75 has the same handler and     *)
(* effect over a slider of its own.                                          *)

MaxSliderSteps == 38
SliderStep == 50

SliderPositions ==
    {d \in {MinSlider + SliderStep * k : k \in 0..MaxSliderSteps} : d <= MaxSlider}

\* handleSliderChange, GoogleMap.tsx:1526-1530, with the effects of the
\* render that follows: none when the walking time stays the same.
handleSliderChange(d) ==
    LET timeMinutes == distanceToTime(d) IN
    /\ d # sliderValue
    /\ sliderInput' = d
    /\ timeOption' = timeMinutes
    /\ UNCHANGED <<type, location>>
    /\ IF timeMinutes = timeOption
          THEN /\ sliderValue' = d
               /\ UNCHANGED <<radiusKm, loading, error, selectedStore, nRequests,
                              inflight, lastRequest, op>>
          ELSE /\ SyncSlider(timeMinutes)
               /\ radiusKm' = RadiusFor(timeMinutes)
               /\ FetchEffect
               /\ op' = NoOp
    /\ UNCHANGED <<stores, displayedCount, geo, pendingViews,
                   timers, lastDone, lastView, nSelects, ragStores, ragLoading, lastSelect>>
    /\ UNCHANGED trendVars

SliderNext ==
    \/ RadiusEffect
    \/ RadiusEffectRan /\ GeoUnavailable
    \/ \E d \in SliderPositions : RadiusEffectRan /\ handleSliderChange(d)

SpecSlider == Init /\ [][SliderNext]_vars

-----------------------------------------------------------------------------
(* The trending ranking, a useMemo of the venue list and the baseline        *)
(* (TrendingPlaces.tsx:71-109; GoogleMap.tsx:1439-1458 without baseline and  *)
(* without ranks).  RankInit draws the list from bounded sets: the venue at  *)
(* position k has the k-th id, each with or without a view count and a       *)
(* backend-supplied increase; the storage is empty or holds a fresh          *)
(* snapshot, so that after the first effects some increases are computed     *)
(* from the baseline.                                                        *)

MaxRankLen == 4

\* What the venue at position k may carry; fewer choices behind the third.
RankIds == <<"a", "b", "c", "d", "e", "f">>
RankCounts(k) == IF k <= TopCount THEN {NoCount, 10, 20, 30} ELSE {20}
RankIncreases(k) == IF k <= TopCount THEN {NoCount, 2, 5} ELSE {NoCount, 5}

RankLists ==
    UNION {{[k \in 1..n |-> TrendVenue(RankIds[k], vc[k], inc[k])] :
               vc \in {f \in [1..n -> {NoCount, 10, 20, 30}] :
                          \A k \in 1..n : f[k] \in RankCounts(k)},
               inc \in {f \in [1..n -> {NoCount, 2, 5}] :
                           \A k \in 1..n : f[k] \in RankIncreases(k)}} :
           n \in 0..MaxRankLen}

\* stores.map(store => ({...store, viewCountIncrease})), TrendingPlaces.tsx:73-88.
storesWithIncrease(list, baseline) ==
    [i \in DOMAIN list |->
        [list[i] EXCEPT !.viewCountIncrease = viewCountIncrease(list[i], baseline)]]

\* The same in GoogleMap.tsx:1440-1443.
storesWithBackendIncrease(list) ==
    [i \in DOMAIN list |->
        [list[i] EXCEPT !.viewCountIncrease = trendingIncrease(list[i])]]

\* A variant of the comparator that looks at the increase only.
compareTrending_IncreaseOnly(a, b) == b.viewCountIncrease - a.viewCountIncrease

\* The comparator passed to sort, TrendingPlaces.tsx:92-101 and
\* GoogleMap.tsx:1447-1456: negative when a comes first.
compareTrending(a, b) ==
    IF b.viewCountIncrease # a.viewCountIncrease
    THEN b.viewCountIncrease - a.viewCountIncrease
    ELSE Nullish(b.viewCount, 0) - Nullish(a.viewCount, 0)

\* x put into the sorted s behind every element that does not come after it.
InsertSorted(s, x) ==
    LET before == {k \in 0..Len(s) : \A j \in 1..k : compareTrending(s[j], x) <= 0}
        at == CHOOSE k \in before : (k + 1) \notin before
    IN SubSeq(s, 1, at) \o <<x>> \o SubSeq(s, at + 1, Len(s))

\* Array.prototype.sort, which is stable: with this comparator (a total
\* preorder) its result is the one an insertion sort gives.
RECURSIVE sortTrending(_)
sortTrending(list) ==
    IF list = <<>> THEN <<>>
    ELSE InsertSorted(sortTrending(SubSeq(list, 1, Len(list) - 1)), list[Len(list)])

\* .slice(0, 3)
sliceTop(list) == SubSeq(list, 1, Min(TopCount, Len(list)))

\* topStores, TrendingPlaces.tsx:71-109.
topStores(list, baseline) ==
    LET sortedStores == sliceTop(sortTrending(storesWithIncrease(list, baseline)))
    IN [index \in DOMAIN sortedStores |->
           [id |-> sortedStores[index].id,
            viewCount |-> sortedStores[index].viewCount,
            viewCountIncrease |-> sortedStores[index].viewCountIncrease,
            currentRank |-> index]]

\* trendingStores, GoogleMap.tsx:1439-1458.
trendingStores(list) == sliceTop(sortTrending(storesWithBackendIncrease(list)))

RankInit ==
    /\ stores \in RankLists
    /\ mounted = "new"
    /\ now = StartTime
    /\ previousViewCounts = EmptyCounts
    /\ \E items \in {<<NoItem, NoItem>>,
                      <<JsonItem(StoredCounts), NumberItem(StartTime - 1)>>} :
          savedViewCounts = items[1] /\ savedTimestamp = items[2]
    /\ storageMode = "ok"
    /\ rotateAt = NoTimer
    /\ currentIndex = 0
    /\ isSliding = FALSE
    /\ slideOn = FALSE
    /\ slideTimeouts = {}
    /\ lastRotate = NoTimer
    /\ seededFrom = <<>>
    /\ did = "none"
    /\ escaped = FALSE
    /\ lateUpdate = FALSE
    /\ HomeIdle

RankNext == MountEffects

SpecRank == RankInit /\ [][RankNext]_vars

-----------------------------------------------------------------------------
(* Steps, as the history variables show them *)

\* A recommendation fetch completes in this step.
Completes == lastDone'.id # lastDone.id
Succeeds == Completes /\ lastDone'.ok
Fails == Completes /\ ~lastDone'.ok

\* A recommendation request is issued in this step.
Dispatches == nRequests' # nRequests

\* The select call p resumes from await incrementPlaceView in this step.
Resumes(p) == p \in pendingViews /\ pendingViews' = pendingViews \ {p}

\* The copy of venue v that a select call makes for a returned count n.
Patched(v, n) == IF n # NoCount THEN [v EXCEPT !.viewCount = n] ELSE v

\* The select call that op follows has settled: incrementPlaceView returned,
\* the deferred selection (if any) was made and no fetch is in flight.
Settled == op.phase = "settled" /\ inflight = {}

CurrentRequest ==
    [latitude |-> location.lat, longitude |-> location.lng,
     timeOption |-> timeOption, type |-> "all"]

-----------------------------------------------------------------------------
(* C1 *)

\* C1, as stated: when a recommendation fetch completes successfully the venue
\* list is exactly the stores of that response, the selected venue is none
\* and the displayed count is 10, whatever happened while it was in flight.
C1_Original ==
    [][Succeeds => /\ stores' = lastDone'.stores
                   /\ selectedStore' = NoStore
                   /\ displayedCount' = PageSize]_vars

\* C1, amended: a successful completion sets the venue list to exactly the
\* stores of that response and the displayed count to 10 and leaves the
\* selected venue as it was; the selected venue is reset to none when a
\* request is dispatched, so a selection made while the fetch is in flight
\* survives the completion.
C1_Amended ==
    [][/\ Succeeds => /\ stores' = lastDone'.stores
                      /\ displayedCount' = PageSize
                      /\ selectedStore' = selectedStore
       /\ Dispatches => selectedStore' = NoStore]_vars

\* A marker click that needed no filter change selected the venue with the
\* returned count 7; the list now holds the response's unpatched entry of that
\* venue, so a fetch completed successfully afterwards and the selection stands.
C1_Witness ==
    /\ op.phase = "settled" /\ op.entry = "marker" /\ op.n = 7
    /\ op.store.type = op.type
    /\ selectedStore = Patched(op.store, 7)
    /\ lastDone.ok /\ stores = lastDone.stores /\ displayedCount = PageSize
    /\ \E i \in DOMAIN stores :
          stores[i].id = selectedStore.id /\ stores[i].viewCount # 7

-----------------------------------------------------------------------------
(* C2 *)

\* C2, as stated: a failed recommendation fetch leaves a non-empty error
\* message and an empty venue list, and while that error stands a request is
\* issued only by a step that changes origin, timeOption or typeFilter.
C2_Original ==
    [][/\ Fails => error' # NoError /\ error' # "" /\ stores' = <<>>
       /\ ErrorShown /\ Dispatches =>
             location' # location \/ timeOption' # timeOption \/ type' # type]_vars

-----------------------------------------------------------------------------
(* C3 *)

\* C3, as stated: right after any recommendation fetch completes successfully
\* the error state is none, for every interleaving of overlapping fetches.
C3_Original == [][Succeeds => error' = NoError]_vars

-----------------------------------------------------------------------------
(* C4 *)

\* C4: whatever the order in which overlapping fetches complete, the
\* completion that leaves no fetch in flight sets the venue list to the
\* stores of that last-completed response (empty when it failed), so no venue
\* of an earlier-completed response remains.
C4_LastCompletedWins ==
    [][Completes /\ inflight' = {} =>
          /\ stores' = lastDone'.stores
          /\ \A i \in DOMAIN stores' : stores'[i].id \in Range(Ids(lastDone'.stores))]_vars

\* The request completed last was not the one dispatched last, its response
\* removed venues that an earlier completion had put in the list (no venue
\* was added by a selection), and the list is its stores.
C4_Witness ==
    /\ inflight = {} /\ lastDone.ok /\ lastDone.id < nRequests
    /\ lastDone.dropped /\ nSelects = 0
    /\ stores = lastDone.stores

-----------------------------------------------------------------------------
(* C5 *)

\* C5: the latest recommendation request always carries type "all", whatever
\* typeFilter is, and the current origin and timeOption: every request is
\* built from the values of the render that dispatched it, and no origin or
\* timeOption changes without dispatching a new one.
C5_RequestAsksForAll == nRequests > 0 => lastRequest = CurrentRequest

\* A request for the GPS origin and a 12 minute walk, issued under filter
\* "restaurant", asks for type "all".
C5_Witness ==
    /\ nRequests > 0 /\ type = "restaurant"
    /\ lastRequest.type = "all" /\ lastRequest.latitude = 1000
    /\ lastRequest.timeOption = 12

-----------------------------------------------------------------------------
(* C6 *)

\* C6, as stated: a step that changes typeFilter alone, with origin set,
\* issues exactly one request, whose type parameter is the new filter value.
C6_Original ==
    [][type' # type /\ location # NoLocation /\ location' = location
          /\ timeOption' = timeOption =>
             /\ nRequests' = nRequests + 1
             /\ lastRequest'.type = type']_vars

\* C6, amended: a step that changes typeFilter alone, with origin set, issues
\* exactly one request, for the unchanged origin and timeOption and with type
\* "all" (not the new filter value); a successful completion replaces the
\* venue list by the response, keeping no venue of the prior list.
C6_Amended ==
    [][/\ type' # type /\ location # NoLocation /\ location' = location
             /\ timeOption' = timeOption =>
                /\ nRequests' = nRequests + 1
                /\ inflight' = inflight \cup {nRequests + 1}
                /\ lastRequest' = [latitude |-> location.lat, longitude |-> location.lng,
                                   timeOption |-> timeOption, type |-> "all"]
       /\ Succeeds => /\ Len(stores') = Len(lastDone'.stores)
                      /\ \A i \in DOMAIN stores' : stores'[i] = lastDone'.stores[i]]_vars

\* A marker click, undisturbed since it was made, has switched the filter to
\* the venue's type; the request this issued is in flight and asks for "all".
C6_Witness ==
    /\ op.phase = "timer" /\ op.store.type # op.type
    /\ type = op.store.type /\ type # "all"
    /\ location # NoLocation
    /\ nRequests \in inflight /\ lastRequest.type = "all"

-----------------------------------------------------------------------------
(* C7 *)

-----------------------------------------------------------------------------
(* C8 *)

\* C8: when incrementPlaceView returns the count n to a select call made for
\* venue v, the list keeps its length and order, its entries with v's id get
\* viewCount n and every other entry is unchanged; the venue selected (at
\* once, or by the timer the call sets) is v with viewCount n, and the other
\* holders of v (pending calls, pending timers) keep it as it was.
C8_PatchesOnlyThatVenue ==
    [][\A p \in pendingViews :
          Resumes(p) /\ lastView'.call = p.call /\ lastView'.n # NoCount =>
             LET n == lastView'.n
                 copy == [p.store EXCEPT !.viewCount = n]
             IN /\ Len(stores') = Len(stores)
                /\ \A i \in DOMAIN stores :
                      stores'[i] = IF stores[i].id = p.store.id
                                   THEN [stores[i] EXCEPT !.viewCount = n]
                                   ELSE stores[i]
                /\ \/ selectedStore' = copy
                   \/ [call |-> p.call, store |-> copy] \in timers'
                /\ timers \subseteq timers']_vars

\* The count 7 came back for venue a: the list <<b, a>> holds a with
\* viewCount 7 and b as the backend sent it, and a with viewCount 7 is selected.
C8_Witness ==
    /\ lastView.n = 7
    /\ stores = <<VenueB, [VenueA EXCEPT !.viewCount = 7]>>
    /\ selectedStore = [VenueA EXCEPT !.viewCount = 7]

-----------------------------------------------------------------------------
(* C9 *)

\* The responses C9 lists: a network error, a non-2xx status, a content type
\* that is not JSON, an empty body, a body that is not JSON, a JSON value
\* that is not a number.
C9_Failed(resp) ==
    \/ ~resp.network
    \/ ~resp.ok
    \/ resp.contentType \notin {"application/json", "application/json;charset=UTF-8"}
    \/ resp.text \in {"", " ", "<html>", "\"7\"", "{\"viewCount\":7}", "null"}

C9_ReturnsNull ==
    \A resp \in ViewResponses :
        /\ ~IncrementPlaceView(resp).threw
        /\ C9_Failed(resp) => IncrementPlaceView(resp).value = NoCount

\* C9, as stated: incrementPlaceView never throws and returns null for each
\* of the listed responses; the select call it returns null to leaves the
\* venue list and the error state unchanged and still selects the venue (at
\* once, or by the timer it sets).
C9_Original ==
    [][/\ C9_ReturnsNull
       /\ \A p \in pendingViews :
             Resumes(p) /\ lastView'.call = p.call /\ lastView'.n = NoCount =>
                /\ stores' = stores
                /\ error' = error
                /\ \/ selectedStore' = p.store
                   \/ [call |-> p.call, store |-> p.store] \in timers']_vars

\* C9, amended: incrementPlaceView never throws and returns null for each of
\* the listed responses; the select call it returns null to leaves the venue
\* list unchanged and goes on as after a success, with the venue unpatched.
\* A card click, or a marker click that needs no filter change, selects the
\* venue at once and leaves the error state and the filter unchanged.  A
\* marker click on a venue of another type sets the filter to that type and
\* selects the venue by the 800 ms timer; when this changes the filter value
\* and origin is set it issues a request, which clears the error state and
\* the selection; otherwise the error state and the selection are unchanged.
C9_Amended ==
    [][/\ C9_ReturnsNull
       /\ \A p \in pendingViews :
             Resumes(p) /\ lastView'.call = p.call /\ lastView'.n = NoCount =>
                /\ stores' = stores
                /\ IF p.entry = "marker" /\ p.store.type \notin {NoType, "all", p.type}
                      THEN /\ type' = p.store.type
                           /\ [call |-> p.call, store |-> p.store] \in timers'
                           /\ Dispatches <=> (type' # type /\ location # NoLocation)
                           /\ IF Dispatches
                                 THEN error' = NoError /\ selectedStore' = NoStore
                                 ELSE error' = error /\ selectedStore' = selectedStore
                      ELSE /\ selectedStore' = p.store
                           /\ error' = error /\ type' = type
                           /\ ~Dispatches]_vars

\* A fetch has failed and no request followed it until an undisturbed marker
\* click, to which null came back, switched the filter: the request this
\* issued is in flight, the error message is gone, the timer is pending.
C9_Witness ==
    /\ op.phase = "timer" /\ op.n = NoCount
    /\ lastView.call = op.call /\ lastView.n = NoCount
    /\ [call |-> op.call, store |-> op.store] \in timers
    /\ ~lastDone.ok /\ lastDone.id > 0 /\ nRequests = lastDone.id + 1
    /\ nRequests \in inflight /\ error = NoError
    /\ stores = <<op.store>>

-----------------------------------------------------------------------------
(* C10 *)

\* The subsequence of list at the indexes idx that are i or more.
RECURSIVE SubsequenceFrom(_, _, _)
SubsequenceFrom(list, idx, i) ==
    IF i > Len(list) THEN <<>>
    ELSE (IF i \in idx THEN <<list[i]>> ELSE <<>>) \o SubsequenceFrom(list, idx, i + 1)

Subsequence(list, idx) == SubsequenceFrom(list, idx, 1)

\* The rule C10 states.
C10_TypeRule(v, t) ==
    t = "all" \/ v.type = t \/ (t = "other" /\ v.type \in {NoType, "other"})

\* The rule of the type-only variant: a venue that carries place-type tags,
\* under a filter that has a tag list, is matched by its tags alone.
C10_TagRule(v, t) ==
    \/ t = "all"
    \/ /\ v.types # {} /\ TYPE_TO_PLACES_TYPES(t) # {}
       /\ \E tag \in v.types : tag \in TYPE_TO_PLACES_TYPES(t)
    \/ /\ v.types = {} \/ TYPE_TO_PLACES_TYPES(t) = {}
       /\ C10_TypeRule(v, t)

C10_InCircle(v) ==
    LET origin == IF location = NoLocation THEN fixedLocation ELSE location IN
    9 * ((v.latitude - origin.lat) * (v.latitude - origin.lat)
         + (v.longitude - origin.lng) * (v.longitude - origin.lng))
        <= radiusKm * radiusKm

-----------------------------------------------------------------------------
(* C11 *)

\* The number of cards on screen: filteredStores.slice(0, displayedCount).
C11_Rendered(count) == Min(count, Len(filteredStores(stores, type)))

\* C11, as stated: a page increment raises the displayed count by 10 but never
\* above the length of the filtered list, and once the displayed count has
\* reached that length it no longer changes.
C11_Original ==
    [][/\ displayedCount' > displayedCount =>
             displayedCount' = Min(displayedCount + PageSize,
                                   Len(filteredStores(stores, type)))
       /\ displayedCount >= Len(filteredStores(stores, type)) =>
             displayedCount' = displayedCount]_vars

\* C11, amended: a page increment happens only while the displayed count is
\* below the length of the filtered list; it raises the displayed count by 10
\* but never above the length of the whole venue list, so the count may
\* exceed the length of the filtered list; the number of cards on screen
\* rises by 10 but never above the length of the filtered list.  Once the
\* displayed count has reached the length of the filtered list it no longer
\* changes.
C11_Amended ==
    [][/\ displayedCount' > displayedCount =>
             /\ displayedCount < Len(filteredStores(stores, type))
             /\ displayedCount' = Min(displayedCount + PageSize, Len(stores))
             /\ C11_Rendered(displayedCount') =
                   Min(C11_Rendered(displayedCount) + PageSize,
                       Len(filteredStores(stores, type)))
       /\ displayedCount >= Len(filteredStores(stores, type)) =>
             displayedCount' = displayedCount]_vars

\* Under filter "restaurant", a list of 12 venues of which 11 are restaurants:
\* the page increment has raised the displayed count from 10 to 12, above the
\* 11 entries of the filtered list, all of which are on screen.
C11_Witness ==
    /\ type = "restaurant" /\ stores = ScrollList(12, 11)
    /\ displayedCount = 12
    /\ Len(filteredStores(stores, type)) = 11
    /\ C11_Rendered(displayedCount) = 11

-----------------------------------------------------------------------------
(* C12 *)

C12_HasId(list, id) == \E i \in DOMAIN list : list[i].id = id

\* C12: a venue made from a map place is appended at the end of the venue
\* list only if no venue of the list has its id, and otherwise the list is
\* returned unchanged; and the ids of the venue list are pairwise distinct
\* (every response of the model has pairwise distinct ids).
C12_MapAddKeepsIdsDistinct ==
    /\ \A place \in MapPlaces :
          handleAddStore(stores, NewStore(place)) =
             IF C12_HasId(stores, place.placeId)
             THEN stores
             ELSE stores \o <<NewStore(place)>>
    /\ Cardinality(Range(Ids(stores))) = Len(stores)

\* The map place was clicked while the list held the backend's venue of the
\* same id, at other coordinates: the select call made for the place is
\* pending and the list is still the response, with one venue of that id.
C12_Witness ==
    /\ stores = <<VenueB, VenueA>> /\ nRequests = 1 /\ lastDone.id = 1
    /\ nSelects = 1
    /\ \E p \in pendingViews :
          /\ p.store.id = VenueA.id /\ p.store # VenueA
          /\ p.store \in {NewStore(place) : place \in MapPlaces}

-----------------------------------------------------------------------------
(* C13 *)

\* The venue has no backend-supplied increase.
NoBackendIncrease(v) == Nullish(v.viewCountIncrease, 0) = 0

\* C13: in a session that starts with no stored snapshot, right after the
\* initialization has seeded the baseline every venue without a
\* backend-supplied increase has increase 0; and as long as no rotation
\* replaces the baseline, a venue whose viewCount has risen by k since the
\* baseline was seeded has increase k.
C13_ZeroThenRise ==
    [][/\ did' = "seed" =>
             \A i \in DOMAIN stores' :
                NoBackendIncrease(stores'[i]) =>
                   viewCountIncrease(stores'[i], previousViewCounts') = 0
       /\ mounted' = "live" /\ seededFrom' # <<>> =>
             \A i \in DOMAIN stores', j \in DOMAIN seededFrom' :
                LET v == stores'[i]
                    w == seededFrom'[j]
                    k == Nullish(v.viewCount, 0) - Nullish(w.viewCount, 0)
                IN v.id = w.id /\ NoBackendIncrease(v) /\ k >= 0 =>
                      viewCountIncrease(v, previousViewCounts') = k]_vars

\* No snapshot was stored when the session started; the baseline was seeded
\* from the list in which venue a had viewCount 10, no rotation has run, and
\* the count of a, patched to 15 since, gives the increase 5.
C13_Witness ==
    /\ mounted = "live" /\ lastRotate = StartTime /\ did = "skip"
    /\ savedTimestamp = NumberItem(StartTime)
    /\ seededFrom = <<TrendVenue("a", 10, NoCount), TrendVenue("b", NoCount, NoCount)>>
    /\ stores = <<TrendVenue("a", 15, NoCount), TrendVenue("b", NoCount, NoCount)>>
    /\ viewCountIncrease(stores[1], previousViewCounts) = 5

-----------------------------------------------------------------------------
(* C14 *)

\* The initialization got past its early return in this step, and the stored
\* items, if any, are a snapshot and a timestamp it can read.
C14_Initializes ==
    /\ did' \in {"seed", "reseed", "reuse", "caught"}
    /\ storageMode = "ok"
    /\ savedViewCounts.kind \in {"none", "json"}
    /\ savedTimestamp.kind \in {"none", "number"}

\* The baseline is the current counts (missing as 0), persisted with the
\* current time.
C14_Reseeded ==
    /\ previousViewCounts' = [id \in Range(Ids(stores')) |->
          LET i == CHOOSE i \in DOMAIN stores' : stores'[i].id = id
          IN IF stores'[i].viewCount = NoCount THEN 0 ELSE stores'[i].viewCount]
    /\ savedViewCounts' = JsonItem(previousViewCounts')
    /\ savedTimestamp' = NumberItem(now)

C14_Reused ==
    /\ previousViewCounts' = savedViewCounts.value
    /\ UNCHANGED <<savedViewCounts, savedTimestamp>>

\* C14, as stated: the initialization reuses the stored snapshot only while
\* it is less than 10 minutes old; otherwise (or when none is stored) it
\* seeds the baseline from the current counts and persists it with the
\* current time, and the increase is then 0 for every venue.
C14_Original ==
    [][C14_Initializes =>
          IF ItemsPresent /\ now - savedTimestamp.value < RotatePeriod
          THEN C14_Reused
          ELSE /\ C14_Reseeded
               /\ \A i \in DOMAIN stores' :
                     viewCountIncrease(stores'[i], previousViewCounts') = 0]_vars

\* C14, amended: the same, except that after the reseeding the increase is 0
\* for every venue without a backend-supplied non-zero increase; a venue that
\* carries one keeps it.
C14_Amended ==
    [][C14_Initializes =>
          IF ItemsPresent /\ now - savedTimestamp.value < RotatePeriod
          THEN C14_Reused
          ELSE /\ C14_Reseeded
               /\ \A i \in DOMAIN stores' :
                     viewCountIncrease(stores'[i], previousViewCounts') =
                        IF NoBackendIncrease(stores'[i])
                        THEN 0
                        ELSE stores'[i].viewCountIncrease]_vars

\* The stored snapshot was 10 minutes old or older when the initialization
\* ran: it was discarded, and the baseline and the stored items are the
\* current counts and the current time; venue b keeps the increase 5 that the
\* backend supplied.
C14_Witness ==
    /\ did = "reseed" /\ now = StartTime
    /\ previousViewCounts # StoredCounts
    /\ previousViewCounts = currentViewCounts(stores)
    /\ savedViewCounts = JsonItem(previousViewCounts)
    /\ savedTimestamp = NumberItem(StartTime)
    /\ \E i \in DOMAIN stores :
          stores[i].id = "b" /\ viewCountIncrease(stores[i], previousViewCounts) = 5

-----------------------------------------------------------------------------
(* C15 *)

\* C15: the increase of a venue is its backend-supplied viewCountIncrease
\* when that is non-zero, and otherwise max(0, current - b), where current is
\* its viewCount (missing as 0) and b is its baseline entry, or current when
\* the baseline has none; it is never negative, and without a baseline entry
\* (as for every venue of the map's trending strip, which keeps no baseline)
\* it is 0.
C15_IncreaseRule ==
    \A i \in DOMAIN stores :
        mounted # "none" =>
            LET v == stores[i]
                supplied == IF v.viewCountIncrease = NoCount THEN 0 ELSE v.viewCountIncrease
                current == IF v.viewCount = NoCount THEN 0 ELSE v.viewCount
                b == IF v.id \in DOMAIN previousViewCounts
                     THEN previousViewCounts[v.id] ELSE current
                diff == IF current - b > 0 THEN current - b ELSE 0
                result == viewCountIncrease(v, previousViewCounts)
            IN /\ result = IF supplied # 0 THEN supplied ELSE diff
               /\ result >= 0
               /\ supplied = 0 /\ v.id \notin DOMAIN previousViewCounts => result = 0
               /\ trendingIncrease(v) = IF supplied # 0 THEN supplied ELSE 0

\* The stored snapshot is in use: venue a, counted 10 against the baseline
\* 12, has increase 0; b keeps the backend's 5; c, of which the baseline
\* knows nothing, has 0.
C15_Witness ==
    /\ did = "reuse" /\ previousViewCounts = StoredCounts /\ Len(stores) = 3
    /\ stores[1].id = "a" /\ stores[1].viewCount < previousViewCounts["a"]
    /\ viewCountIncrease(stores[1], previousViewCounts) = 0
    /\ viewCountIncrease(stores[2], previousViewCounts) = 5
    /\ stores[3].id \notin DOMAIN previousViewCounts
    /\ viewCountIncrease(stores[3], previousViewCounts) = 0

-----------------------------------------------------------------------------
(* C16 *)

\* C16: while the trending view stays mounted, the rotation runs on a fixed
\* 10-minute period: never do more than ten minutes pass since the effects
\* first ran, or since the last rotation, without the rotation running,
\* however often the venue list changes in between.
C16_Original ==
    mounted = "live" => now - lastRotate <= RotatePeriod

-----------------------------------------------------------------------------
(* C17 *)

\* No exception has escaped a callback of the tracker.
C17_NothingEscapes == ~escaped

\* After a read failure that initialize caught, the baseline holds the
\* current counts.
C17_BaselineAfterCaught ==
    did = "caught" => previousViewCounts = currentViewCounts(stores)

\* After a write failure, in initialize or in the rotation, the baseline
\* holds the current counts.
C17_BaselineAfterWriteFailure ==
    did \in {"seed", "reseed", "rotate"} /\ storageMode = "setThrows" =>
        previousViewCounts = currentViewCounts(stores)

\* C17: when reading or writing the persisted snapshot fails (storage access
\* throws, or the stored value is corrupt JSON), in initialize as well as in
\* the rotation, no exception escapes, and the tracker goes on with an
\* in-memory baseline seeded from the current counts.
C17_Original ==
    /\ C17_NothingEscapes
    /\ C17_BaselineAfterCaught
    /\ C17_BaselineAfterWriteFailure

-----------------------------------------------------------------------------
(* C18 *)

\* Venue j of the list comes before venue i: greater increase, or the same
\* increase and greater view count (missing as 0), or both the same and
\* earlier in the list.
C18_Precedes(ranked, j, i) ==
    LET ij == ranked[j].viewCountIncrease
        ii == ranked[i].viewCountIncrease
        cj == IF ranked[j].viewCount = NoCount THEN 0 ELSE ranked[j].viewCount
        ci == IF ranked[i].viewCount = NoCount THEN 0 ELSE ranked[i].viewCount
    IN \/ ij > ii
       \/ ij = ii /\ cj > ci
       \/ ij = ii /\ cj = ci /\ j < i

C18_Place(ranked, i) ==
    1 + Cardinality({j \in DOMAIN ranked : C18_Precedes(ranked, j, i)})

\* top holds, at each of its places, the venue of that place in the order.
C18_IsTopOf(top, ranked) ==
    /\ Len(top) = IF Len(ranked) < 3 THEN Len(ranked) ELSE 3
    /\ \A i \in DOMAIN ranked :
          C18_Place(ranked, i) <= 3 =>
              LET entry == top[C18_Place(ranked, i)]
              IN /\ entry.id = ranked[i].id
                 /\ entry.viewCount = ranked[i].viewCount
                 /\ entry.viewCountIncrease = ranked[i].viewCountIncrease

C18_Example ==
    <<TrendVenue("a", 30, 2), TrendVenue("b", 10, 5), TrendVenue("c", 20, 5)>>

\* C18: the trending list has min(3, number of venues) entries, holds the
\* venues that come first when all are ordered by descending increase, ties
\* by descending viewCount (missing as 0), remaining ties in list order, and
\* its entry i has currentRank i; the venues with (increase, viewCount) =
\* (2,30), (5,10), (5,20) come out third, second, first.
C18_TopThreeInOrder ==
    LET top == topStores(stores, previousViewCounts) IN
    /\ C18_IsTopOf(top, storesWithIncrease(stores, previousViewCounts))
    /\ \A i \in DOMAIN top : top[i].currentRank = i
    /\ C18_IsTopOf(trendingStores(stores), storesWithBackendIncrease(stores))
    /\ stores = C18_Example =>
           /\ Ids(top) = <<"c", "b", "a">>
           /\ Ids(trendingStores(stores)) = <<"c", "b", "a">>

\* A fourth venue, with the greatest increase, pushes the first of the
\* list out of the top three.
C18_WitnessDropped ==
    /\ mounted = "live" /\ Len(stores) = 4
    /\ SubSeq(stores, 1, 3) = C18_Example /\ stores[4] = TrendVenue("d", 20, 5)
    /\ Ids(topStores(stores, previousViewCounts)) = <<"c", "d", "b">>

\* The effects have run and the list is the one of the example.
C18_Witness ==
    /\ mounted = "live" /\ stores = C18_Example
    /\ Ids(topStores(stores, previousViewCounts)) = <<"c", "b", "a">>
    /\ topStores(stores, previousViewCounts)[1].currentRank = 1

-----------------------------------------------------------------------------
(* C19 *)

\* The two intervals: none is left armed by a view that is gone.
C19_IntervalsCleared ==
    mounted = "gone" => rotateAt = NoTimer /\ ~slideOn

\* C19: after the trending view is torn down, or its timer effect is
\* re-created, none of the timers it had scheduled fires a state update any
\* more: not the rotation, not the auto-advance, not the delayed index and
\* slide updates an auto-advance tick had already scheduled.
C19_Original ==
    /\ C19_IntervalsCleared
    /\ ~lateUpdate

-----------------------------------------------------------------------------
(* C20 *)

\* 0.1 km and 2.0 km, and t minutes at 5 km/h, in the model's units.
C20_Low == RadiusPerKm \div 10
C20_High == 2 * RadiusPerKm
C20_Walked(t) == (t * 5 * RadiusPerKm) \div 60

C20_Clamp(t) ==
    IF C20_Walked(t) < C20_Low THEN C20_Low
    ELSE IF C20_Walked(t) > C20_High THEN C20_High
    ELSE C20_Walked(t)

-----------------------------------------------------------------------------
(* C21 *)

\* C21: converting a distance m to a walking time and back gives a distance
\* that differs from m by at most 1; here for the distance the user has set
\* the slider to.
C21_Original ==
    sliderInput # NoCount =>
        Abs(timeToDistance(distanceToTime(sliderInput)) - sliderInput) <= 1

-----------------------------------------------------------------------------
(* C30 *)

\* The slider value is within [100, 2000], and the walking time the slider
\* has produced is within [1, 24].
C30_Ranges ==
    /\ 100 <= sliderValue /\ sliderValue <= 2000
    /\ sliderInput # NoCount =>
           /\ timeOption = distanceToTime(sliderInput)
           /\ 1 <= timeOption /\ timeOption <= 24

\* C30: the distance slider is stable under its own feedback loop: after
\* the user has set it to d (100, 150, ..., 2000), the parent has received
\* timeOption = distanceToTime(d), and once the timeOption-to-slider
\* synchronisation has run the slider value is d again; the slider value is
\* always within [100, 2000] and the timeOption it produces within [1, 24].
C30_Original ==
    /\ C30_Ranges
    /\ sliderInput # NoCount => sliderValue = sliderInput

-----------------------------------------------------------------------------
(* C22 *)

\* C22: whenever a venue is selected, a venue of the same id is in the
\* current venue list: across fetch completions that replace the list, the
\* deferred selection after a filter change, and the selection of a venue
\* just appended by map interaction.
C22_Original ==
    selectedStore # NoStore => \E i \in DOMAIN stores : stores[i].id = selectedStore.id

-----------------------------------------------------------------------------
(* C23 *)

\* C23: the selection reflects the most recent selection request: when a
\* select call for a is followed by a select call for b, or for null, before
\* a's pending work is done, then once everything has settled (no
\* view-increment call in flight, no 800 ms timer pending) the selected venue
\* is b, respectively none.
C23_Original ==
    pendingViews = {} /\ timers = {} /\ inflight = {} => selectedStore.id = lastSelect

-----------------------------------------------------------------------------
(* C24 *)

\* The venue list holds the selected venue as it was clicked (but for the
\* patched view count), and the list is on screen.
C24_StillListed ==
    /\ ~loading /\ ~ErrorShown
    /\ \E i \in DOMAIN stores :
          /\ stores[i].id = selectedStore.id
          /\ stores[i].type = selectedStore.type
          /\ stores[i].types = selectedStore.types

\* C24: after a select call that changed the filter has settled and its
\* venue is the selected one, that venue is in the derived filtered list for
\* the resulting filter, so that its card can be found; here for the variant
\* that matches by place-type tags (page.tsx:1482-1499), and given that the
\* list still holds the venue and is on screen.
C24_Original ==
    /\ Settled /\ op.entry = "marker" /\ needsTypeChange(op.store, op.type)
    /\ selectedStore = Patched(op.store, op.n)
    /\ C24_StillListed
    => \E i \in DOMAIN filteredStores(stores, type) :
           filteredStores(stores, type)[i].id = selectedStore.id

\* The same for the variant that matches by venue.type and distance
\* (page.tsx:505-522).
C24_ByTypeVariant ==
    /\ Settled /\ op.entry = "marker" /\ needsTypeChange(op.store, op.type)
    /\ selectedStore = Patched(op.store, op.n)
    /\ C24_StillListed
    => \E i \in DOMAIN filteredStoresWithinCircle(stores, type, location, radiusKm) :
           filteredStoresWithinCircle(stores, type, location, radiusKm)[i].id
               = selectedStore.id

-----------------------------------------------------------------------------
(* C25 *)

\* C25: the loading flag is true in every state in which at least one
\* recommendation fetch is in flight and false when none is; an earlier fetch
\* completing while a later one is still in flight does not turn it off.
C25_Original ==
    loading <=> inflight # {}

-----------------------------------------------------------------------------
(* C26 *)

\* No venue of the list has a smaller view count after the step than before.
C26_CountsKept ==
    \A i \in DOMAIN stores : \A j \in DOMAIN stores' :
        stores'[j].id = stores[i].id => stores'[j].viewCount >= stores[i].viewCount

\* C26: between two fetch completions the viewCount of a venue in the list
\* never decreases: when several view-increment calls for the same venue are
\* in flight and their responses arrive in any order, each patch leaves the
\* venue's viewCount greater than or equal to its previous value.  Here for
\* the steps in which the response of a call arrives after the response of a
\* call that was made later, so that the two calls were in flight together.
C26_Original ==
    [][lastDone' = lastDone /\ lastView # NoView /\ lastView'.call < lastView.call
           => C26_CountsKept]_vars

-----------------------------------------------------------------------------
(* C27 *)

\* C27: in every reachable state 10 <= displayedCount <= max(10, length of
\* the venue list), after any sequence of page increments, successful
\* fetches, failed fetches and map-added venues.
C27_Original ==
    /\ PageSize <= displayedCount
    /\ displayedCount <= IF Len(stores) > PageSize THEN Len(stores) ELSE PageSize

-----------------------------------------------------------------------------
(* C28 *)

\* A pending RAG query ends in a failure.
RagFails ==
    \E outcome \in RagOutcomes :
        ~getRagRecommendations(outcome).ok /\ RagReturn(outcome)

\* C28: a failure of the RAG query does not block the primary flow: it
\* leaves the primary venue list unchanged and does not put the page into
\* the error state that hides the venue list; it only empties the RAG list.
C28_Original ==
    [][RagFails /\ ~ErrorShown
           => stores' = stores /\ ragStores' = <<>> /\ ~ErrorShown']_vars

\* The part of C28 about the two lists.
C28_ListsOnly ==
    [][RagFails => stores' = stores /\ ragStores' = <<>>]_vars

-----------------------------------------------------------------------------
(* C29 *)

\* C29: whenever the trending list is non-empty, the auto-advance cursor
\* satisfies 0 <= currentIndex < length of the trending list, including when
\* the list shrinks while a delayed auto-advance step computed with the old
\* length is still pending.
C29_Original ==
    mounted = "live" /\ topLength(stores) > 0
        => 0 <= currentIndex /\ currentIndex < topLength(stores)

====
